---- MODULE Spec2Model ----
(***************************************************************************)
(* Model of the delimited-text codec (utils/csv.py: CSV) and of the        *)
(* record-set transforms (utils/common.py: Common) of the PolisJAPAN API.  *)
(*                                                                         *)
(* A Python str is modelled as a sequence of one-character strings, a      *)
(* list as a sequence, and a dict as a sequence of [key, val] pairs in     *)
(* insertion order with pairwise distinct keys.                            *)
(***************************************************************************)
EXTENDS Integers, Sequences, FiniteSets, TLC

VARIABLES
    pc,            \* position of the calling pipeline
    text,          \* CSV text handed to parse_csv
    delimiter,     \* delimiter argument of parse_csv / to_csv
    headers_list,  \* header row returned by _analyze_csv
    rows,          \* normalized data rows returned by _analyze_csv
    used_d,        \* delimiter _analyze_csv used
    result,        \* record list returned by parse_csv
    records,       \* record list handed to to_csv
    headers,       \* header list handed to to_csv
    include_bom,   \* include_bom argument of to_csv
    csv,           \* text returned by to_csv
    result2,       \* record list returned by parsing csv again
    tok,           \* locals of the tokenizer loop: rows, row, field, in_quotes, i
    base_list,     \* merge_lists argument
    update_list,   \* merge_lists argument
    merged,        \* outcome of merge_lists
    remerged,      \* outcome of merging update_list into merged once more
    list_data,     \* sort_list argument
    reverse,       \* sort_list argument
    sorted_list,   \* outcome of sort_list
    s3,            \* object storage: key -> text of the object
    polis,         \* conversations on Polis, in order of creation
    t_draft,       \* rows of the draft table
    update_themes, \* update list built by the last /batch/update
    uploaded,      \* upload_bytes calls in order: of the last request, or of all requests when they interleave
    requests,      \* number of requests handled so far
    req            \* locals of the batch requests in progress

vars == <<pc, text, delimiter, headers_list, rows, used_d, result, records,
          headers, include_bom, csv, result2, tok, base_list, update_list, merged,
          remerged, list_data, reverse, sorted_list,
          s3, polis, t_draft, update_themes, uploaded, requests, req>>

decVars == <<text, delimiter, headers_list, rows, used_d, result, result2, tok>>
encVars == <<records, headers, include_bom, csv>>
mergeVars == <<base_list, update_list, merged, remerged>>
sortVars == <<list_data, reverse, sorted_list>>
batchVars == <<s3, polis, t_draft, update_themes, uploaded, requests, req>>

-----------------------------------------------------------------------------
(* Bounds of the model. *)

MaxTextLen == 4
MaxCellLen == 3
MaxHeaders == 2
MaxRecords == 2
MaxMergeLen == 2
MaxSortLen == 3
MaxRequests == 3
MaxVotes == 2

-----------------------------------------------------------------------------
(* Characters. *)

QUOTE == "\""
LF == "\n"
CR == "\r"
TAB == "\t"
BOM == "BOM"      \* the single character U+FEFF
None == <<"None">> \* Python's None, distinct from every str

\* The characters input texts are drawn from.
Alphabet == {"a", ",", ";", TAB, QUOTE, LF, CR, " ", BOM}

\* All strings over alphabet A of length at most n.
StringsUpTo(A, n) == UNION {[1..k -> A] : k \in 0..n}

\* The characters str.strip() removes, among those of the model.
IsSpace(c) == c \in {" ", TAB, LF, CR}

-----------------------------------------------------------------------------
(* str methods. *)

\* s.lstrip(): drop the leading characters that satisfy IsSpace.
lstrip(s) ==
    LET k == IF \A i \in 1..Len(s) : IsSpace(s[i]) THEN Len(s) + 1
             ELSE CHOOSE i \in 1..Len(s) :
                     ~IsSpace(s[i]) /\ \A j \in 1..(i - 1) : IsSpace(s[j])
    IN SubSeq(s, k, Len(s))

\* s.rstrip()
rstrip(s) ==
    LET k == IF \A i \in 1..Len(s) : IsSpace(s[i]) THEN 0
             ELSE CHOOSE i \in 1..Len(s) :
                     ~IsSpace(s[i]) /\ \A j \in (i + 1)..Len(s) : IsSpace(s[j])
    IN SubSeq(s, 1, k)

\* s.strip()
strip(s) == rstrip(lstrip(s))

\* s.lstrip(U+FEFF): drop every leading U+FEFF.
lstrip_bom(s) ==
    LET k == IF \A i \in 1..Len(s) : s[i] = BOM THEN Len(s) + 1
             ELSE CHOOSE i \in 1..Len(s) :
                     s[i] # BOM /\ \A j \in 1..(i - 1) : s[j] = BOM
    IN SubSeq(s, k, Len(s))

\* s.replace("\r\n", "\n"): leftmost non-overlapping occurrences.
RECURSIVE replace_crlf(_)
replace_crlf(s) ==
    IF s = <<>> THEN <<>>
    ELSE IF Len(s) >= 2 /\ s[1] = CR /\ s[2] = LF
         THEN <<LF>> \o replace_crlf(SubSeq(s, 3, Len(s)))
         ELSE <<s[1]>> \o replace_crlf(Tail(s))

\* A replacement that leaves every CR in place.
replace_cr_keep(s) == s

\* s.replace("\r", "\n")
replace_cr(s) == [i \in 1..Len(s) |-> IF s[i] = CR THEN LF ELSE s[i]]

\* s.split(sep) for a one-character sep.
RECURSIVE split(_, _)
split(s, sep) ==
    IF \A i \in 1..Len(s) : s[i] # sep THEN <<s>>
    ELSE LET k == CHOOSE i \in 1..Len(s) :
                     s[i] = sep /\ \A j \in 1..(i - 1) : s[j] # sep
         IN <<SubSeq(s, 1, k - 1)>> \o split(SubSeq(s, k + 1, Len(s)), sep)

\* c in s
contains(s, c) == \E i \in 1..Len(s) : s[i] = c

\* sep.join(parts)
RECURSIVE join(_, _)
join(parts, sep) ==
    IF parts = <<>> THEN <<>>
    ELSE IF Len(parts) = 1 THEN parts[1]
    ELSE parts[1] \o <<sep>> \o join(Tail(parts), sep)

-----------------------------------------------------------------------------
(* dict operations. *)

dict_has(d, k) == \E i \in 1..Len(d) : d[i].key = k

\* d.get(k, default)
dict_get(d, k, default) ==
    IF dict_has(d, k)
    THEN d[CHOOSE i \in 1..Len(d) : d[i].key = k].val
    ELSE default

\* d[k] = v: an existing key keeps its position, a new key goes last.
dict_set(d, k, v) ==
    IF dict_has(d, k)
    THEN [i \in 1..Len(d) |-> IF d[i].key = k THEN [key |-> k, val |-> v] ELSE d[i]]
    ELSE Append(d, [key |-> k, val |-> v])

dict_keys(d) == [i \in 1..Len(d) |-> d[i].key]
dict_values(d) == [i \in 1..Len(d) |-> d[i].val]

\* d1 == d2 in Python: the same keys with the same values, in any order.
dict_eq(d1, d2) ==
    /\ {d1[i].key : i \in 1..Len(d1)} = {d2[i].key : i \in 1..Len(d2)}
    /\ \A i \in 1..Len(d1) : dict_get(d2, d1[i].key, None) = d1[i].val

\* l1 == l2 for two lists of dicts.
list_eq(l1, l2) ==
    /\ Len(l1) = Len(l2)
    /\ \A i \in 1..Len(l1) : dict_eq(l1[i], l2[i])

-----------------------------------------------------------------------------
(* CSV._split_line_for_guess *)

RECURSIVE split_line_loop(_, _, _, _, _, _)
split_line_loop(line, d, i, arr, cur, in_q) ==
    IF i > Len(line) THEN Append(arr, cur)
    ELSE LET c == line[i] IN
         IF c = QUOTE
         THEN IF in_q /\ i + 1 <= Len(line) /\ line[i + 1] = QUOTE
              THEN split_line_loop(line, d, i + 2, arr, Append(cur, QUOTE), in_q)
              ELSE split_line_loop(line, d, i + 1, arr, cur, ~in_q)
         ELSE IF ~in_q /\ c = d
              THEN split_line_loop(line, d, i + 1, Append(arr, cur), <<>>, in_q)
              ELSE split_line_loop(line, d, i + 1, arr, Append(cur, c), in_q)

\* The guess split that never looks at quotes.
split_line_unquoted(line, d) == split(line, d)

_split_line_for_guess(line, d) == split_line_loop(line, d, 1, <<>>, <<>>, FALSE)

-----------------------------------------------------------------------------
(* CSV._analyze_csv *)

\* text.replace("\r\n", "\n").replace("\r", "\n")
normalize_newlines(t) == replace_cr(replace_crlf(t))

\* next((ln for ln in lines if ln.strip() != ""), "")
first_line(t) ==
    LET lines == split(t, LF) IN
    IF \A i \in 1..Len(lines) : strip(lines[i]) = <<>> THEN <<>>
    ELSE lines[CHOOSE i \in 1..Len(lines) :
                  /\ strip(lines[i]) # <<>>
                  /\ \A j \in 1..(i - 1) : strip(lines[j]) = <<>>]

candidates == <<",", TAB, ";">>

\* A candidate that only ties the best count so far replaces it.
is_better_or_equal(count, best_count) == count >= best_count

\* if count > best_count
is_better(count, best_count) == count > best_count

RECURSIVE guess_loop(_, _, _, _)
guess_loop(line, k, best_d, best_count) ==
    IF k > Len(candidates) THEN best_d
    ELSE LET d == candidates[k]
             count == Len(_split_line_for_guess(line, d))
         IN IF is_better(count, best_count)
            THEN guess_loop(line, k + 1, d, count)
            ELSE guess_loop(line, k + 1, best_d, best_count)

\* The delimiter the scan uses: the argument, or the guess when it is "auto".
\* t is the normalized text.
resolve_delimiter(t, delim) ==
    IF delim = "auto" THEN guess_loop(first_line(t), 1, ",", 0) ELSE delim

\* A turn that, on the quote that closes quote mode, clears the flag but stays
\* on the same character.
tok_step_rescan(t, d, st) ==
    LET ch == t[st.i] IN
    IF st.in_quotes
    THEN IF ch = QUOTE
         THEN IF st.i + 1 <= Len(t) /\ t[st.i + 1] = QUOTE
              THEN [st EXCEPT !.field = Append(@, QUOTE), !.i = @ + 2]
              ELSE [st EXCEPT !.in_quotes = FALSE]
         ELSE [st EXCEPT !.field = Append(@, ch), !.i = @ + 1]
    ELSE IF ch = QUOTE
         THEN [st EXCEPT !.in_quotes = TRUE, !.i = @ + 1]
         ELSE IF ch = d
         THEN [st EXCEPT !.row = Append(@, st.field), !.field = <<>>, !.i = @ + 1]
         ELSE IF ch = LF
         THEN [st EXCEPT !.rows = Append(@, Append(st.row, st.field)),
                         !.row = <<>>, !.field = <<>>, !.i = @ + 1]
         ELSE [st EXCEPT !.field = Append(@, ch), !.i = @ + 1]

\* A turn that ends the row at every LF, in quote mode too.
tok_step_quote_blind(t, d, st) ==
    LET ch == t[st.i] IN
    IF ch = LF
    THEN [st EXCEPT !.rows = Append(@, Append(st.row, st.field)),
                    !.row = <<>>, !.field = <<>>, !.i = @ + 1]
    ELSE IF st.in_quotes
    THEN IF ch = QUOTE
         THEN IF st.i + 1 <= Len(t) /\ t[st.i + 1] = QUOTE
              THEN [st EXCEPT !.field = Append(@, QUOTE), !.i = @ + 2]
              ELSE [st EXCEPT !.in_quotes = FALSE, !.i = @ + 1]
         ELSE [st EXCEPT !.field = Append(@, ch), !.i = @ + 1]
    ELSE IF ch = QUOTE
         THEN [st EXCEPT !.in_quotes = TRUE, !.i = @ + 1]
         ELSE IF ch = d
         THEN [st EXCEPT !.row = Append(@, st.field), !.field = <<>>, !.i = @ + 1]
         ELSE [st EXCEPT !.field = Append(@, ch), !.i = @ + 1]

\* One turn of the tokenizer loop on state st = [rows, row, field, in_quotes, i].
tok_step(t, d, st) ==
    LET ch == t[st.i] IN
    IF st.in_quotes
    THEN IF ch = QUOTE
         THEN IF st.i + 1 <= Len(t) /\ t[st.i + 1] = QUOTE
              THEN [st EXCEPT !.field = Append(@, QUOTE), !.i = @ + 2]
              ELSE [st EXCEPT !.in_quotes = FALSE, !.i = @ + 1]
         ELSE [st EXCEPT !.field = Append(@, ch), !.i = @ + 1]
    ELSE IF ch = QUOTE
         THEN [st EXCEPT !.in_quotes = TRUE, !.i = @ + 1]
         ELSE IF ch = d
         THEN [st EXCEPT !.row = Append(@, st.field), !.field = <<>>, !.i = @ + 1]
         ELSE IF ch = LF
         THEN [st EXCEPT !.rows = Append(@, Append(st.row, st.field)),
                         !.row = <<>>, !.field = <<>>, !.i = @ + 1]
         ELSE [st EXCEPT !.field = Append(@, ch), !.i = @ + 1]

tok_init == [rows |-> <<>>, row |-> <<>>, field |-> <<>>, in_quotes |-> FALSE, i |-> 1]

RECURSIVE tok_loop(_, _, _)
tok_loop(t, d, st) ==
    IF st.i > Len(t) THEN st ELSE tok_loop(t, d, tok_step(t, d, st))

\* The scan and the flush of the last field and row.
tokenize(t, d) ==
    LET st == tok_loop(t, d, tok_init)
    IN Append(st.rows, Append(st.row, st.field))

\* [h.lstrip(U+FEFF).strip() for h in headers]
clean_headers(hs) == [i \in 1..Len(hs) |-> strip(lstrip_bom(hs[i]))]

\* A blank-row test that finds no row blank.
never_blank(r) == FALSE

\* all(((v or "").strip() == "") for v in r)
is_blank_row(r) == \A i \in 1..Len(r) : strip(r[i]) = <<>>

\* A fit that cuts a row to the header width and pads nothing.
fit_row_no_pad(r, cols) == SubSeq(r, 1, IF Len(r) < cols THEN Len(r) ELSE cols)

\* arr = r[:cols], then padded with "" up to cols
fit_row(r, cols) == [i \in 1..cols |-> IF i <= Len(r) THEN r[i] ELSE <<>>]

\* The rows that pass the blank-row test, in order.
RECURSIVE drop_blank_rows(_)
drop_blank_rows(rs) ==
    IF rs = <<>> THEN <<>>
    ELSE IF is_blank_row(Head(rs)) THEN drop_blank_rows(Tail(rs))
    ELSE <<Head(rs)>> \o drop_blank_rows(Tail(rs))

\* The loop over the data rows: the blank-row test is made on the raw row,
\* before it is cut or padded to the header width.
normalize_rows(rs, cols) ==
    LET kept == drop_blank_rows(rs)
    IN [i \in 1..Len(kept) |-> fit_row(kept[i], cols)]

_analyze_csv(txt, delim) ==
    LET t == normalize_newlines(txt)
        d == resolve_delimiter(t, delim)
        all_rows == tokenize(t, d)
        hs == clean_headers(Head(all_rows))
    IN [rows |-> normalize_rows(Tail(all_rows), Len(hs)),
        headers |-> hs,
        delimiter |-> d]

-----------------------------------------------------------------------------
(* CSV.rows_to_objects and CSV.parse_csv *)

\* {h: (r[i] if i < len(r) and r[i] is not None else "") for i, h in enumerate(headers)}
RECURSIVE object_loop(_, _, _, _)
object_loop(r, hs, i, obj) ==
    IF i > Len(hs) THEN obj
    ELSE object_loop(r, hs, i + 1,
             dict_set(obj, hs[i], IF i <= Len(r) /\ r[i] # None THEN r[i] ELSE <<>>))

\* A recordizer that keeps only the first column of each header name.
RECURSIVE object_loop_first(_, _, _, _)
object_loop_first(r, hs, i, obj) ==
    IF i > Len(hs) THEN obj
    ELSE object_loop_first(r, hs, i + 1,
             IF dict_has(obj, hs[i]) THEN obj
             ELSE dict_set(obj, hs[i], IF i <= Len(r) THEN r[i] ELSE <<>>))

row_to_object_first(r, hs) == object_loop_first(r, hs, 1, <<>>)

row_to_object(r, hs) == object_loop(r, hs, 1, <<>>)

rows_to_objects(rs, hs) == [i \in 1..Len(rs) |-> row_to_object(rs[i], hs)]

parse_csv(txt, delim) ==
    LET a == _analyze_csv(txt, delim) IN rows_to_objects(a.rows, a.headers)

-----------------------------------------------------------------------------
(* CSV.to_csv *)

\* _to_str: None -> "", anything else its str
_to_str(v) == IF v = None THEN <<>> ELSE v

\* A quoting test that does not look at leading or trailing whitespace.
needs_quote_no_trim(s, delim) ==
    contains(s, delim) \/ contains(s, LF) \/ contains(s, CR) \/ contains(s, QUOTE)

_needs_quote(s, delim) ==
    \/ contains(s, delim)
    \/ contains(s, LF)
    \/ contains(s, CR)
    \/ contains(s, QUOTE)
    \/ s # strip(s)

\* s.replace('"', '""')
RECURSIVE escape_quotes(_)
escape_quotes(s) ==
    IF s = <<>> THEN <<>>
    ELSE IF Head(s) = QUOTE THEN <<QUOTE, QUOTE>> \o escape_quotes(Tail(s))
    ELSE <<Head(s)>> \o escape_quotes(Tail(s))

\* Quoting that leaves the quotes inside the cell as they are.
quote_unescaped(s) == <<QUOTE>> \o s \o <<QUOTE>>

_quote(s) == <<QUOTE>> \o escape_quotes(s) \o <<QUOTE>>

emit_cell(cell, delim) ==
    LET s == _to_str(cell) IN IF _needs_quote(s, delim) THEN _quote(s) ELSE s

_emit_row(cells, delim) ==
    join([i \in 1..Len(cells) |-> emit_cell(cells[i], delim)], delim)

\* A row that holds only the cells the record has a value for.
record_row_present(rec, hs) ==
    SelectSeq([i \in 1..Len(hs) |-> dict_get(rec, hs[i], None)], LAMBDA v : v # None)

\* row = [rec.get(h, "") for h in headers]
record_row(rec, hs) == [i \in 1..Len(hs) |-> dict_get(rec, hs[i], <<>>)]

\* An encoder that writes the byte order mark whatever include_bom is.
to_csv_always_bom(recs, hs, delim, bom, newline) ==
    <<BOM>> \o join(<<_emit_row(hs, delim)>> \o
                    [i \in 1..Len(recs) |-> _emit_row(record_row(recs[i], hs), delim)],
                    newline)

to_csv(recs, hs, delim, bom, newline) ==
    LET header_line == _emit_row(hs, delim)
        lines == <<header_line>> \o
                 [i \in 1..Len(recs) |-> _emit_row(record_row(recs[i], hs), delim)]
        body == join(lines, newline)
    IN IF bom THEN <<BOM>> \o body ELSE body

-----------------------------------------------------------------------------
(* The decode / encode / decode pipeline: a text is parsed, the records are *)
(* written back under the discovered header with the encoder's defaults,    *)
(* and the written text is parsed again.                                    *)

decIdle ==
    /\ text = <<>> /\ delimiter = "auto" /\ headers_list = <<>> /\ rows = <<>>
    /\ used_d = "" /\ result = <<>> /\ result2 = <<>> /\ tok = tok_init
encIdle == records = <<>> /\ headers = <<>> /\ include_bom = TRUE /\ csv = <<>>
mergeIdle ==
    /\ base_list = <<>> /\ update_list = <<>>
    /\ merged = [error |-> "", value |-> <<>>]
    /\ remerged = [error |-> "", value |-> <<>>]
sortIdle ==
    /\ list_data = <<>> /\ reverse = FALSE
    /\ sorted_list = [error |-> "", value |-> <<>>]

batchIdle ==
    /\ s3 = <<>> /\ polis = <<>> /\ t_draft = <<>> /\ update_themes = <<>>
    /\ uploaded = <<>> /\ requests = 0 /\ req = <<>>

\* The texts the specification's examples name.
TextCommas == <<"a", ",", "b", ",", "c", LF, "1", ",", "2", ",", "3">>
TextSemis == <<"a", ";", "b", ";", "c", LF, "1", ";", "2", ";", "3">>
TextQuotedComma == <<QUOTE, "a", ",", "b", QUOTE, ";", "c">>
TextShortRow == <<"a", ",", "b", ",", "c", LF, "1", ",", "2">>
TextBlankRow == <<"a", ",", "b", LF, "1", ",", "2", LF, ",", LF, "3", ",", "4">>
ExampleTexts == {TextCommas, TextSemis, TextQuotedComma, TextShortRow, TextBlankRow}

InitCsv ==
    /\ pc = "start"
    /\ text \in StringsUpTo(Alphabet, MaxTextLen) \cup ExampleTexts
    /\ delimiter = "auto"
    /\ headers_list = <<>> /\ rows = <<>> /\ used_d = ""
    /\ result = <<>> /\ result2 = <<>> /\ tok = tok_init
    /\ encIdle /\ mergeIdle /\ sortIdle /\ batchIdle

\* parse_csv(text, delimiter)
ParseCsv ==
    /\ pc = "start"
    /\ LET a == _analyze_csv(text, delimiter) IN
        /\ rows' = a.rows
        /\ headers_list' = a.headers
        /\ used_d' = a.delimiter
        /\ result' = rows_to_objects(a.rows, a.headers)
    /\ pc' = "parsed"
    /\ UNCHANGED <<batchVars, text, delimiter, result2, tok, encVars, mergeVars, sortVars>>

\* to_csv(result, headers_list)
ToCsv ==
    /\ pc = "parsed"
    /\ records' = result
    /\ headers' = headers_list
    /\ include_bom' = TRUE
    /\ csv' = to_csv(result, headers_list, ",", TRUE, LF)
    /\ pc' = "encoded"
    /\ UNCHANGED <<batchVars, decVars, mergeVars, sortVars>>

\* parse_csv(csv)
ParseAgain ==
    /\ pc = "encoded"
    /\ result2' = parse_csv(csv, "auto")
    /\ pc' = "reparsed"
    /\ UNCHANGED <<batchVars, text, delimiter, headers_list, rows, used_d, result, tok,
                   encVars, mergeVars, sortVars>>

NextCsv == ParseCsv \/ ToCsv \/ ParseAgain

SpecCsv == InitCsv /\ [][NextCsv]_vars

-----------------------------------------------------------------------------
(* parse_csv one turn of the tokenizer loop at a time: the newlines are     *)
(* normalized and the delimiter resolved, the loop consumes the text, the   *)
(* last field and row are flushed and the rows are turned into records.     *)
(* The text followed by a newline is then parsed in one call.               *)

MaxScanLen == 4

ScanAlphabet == {"a", ",", ";", QUOTE, LF, CR}

\* The delimiter arguments other than "auto": one character, none, several.
ExplicitDelimiters == {",", ";", TAB, "", ",,", "a,"}

\* The text the loop scans.
scanned == normalize_newlines(text)

InitScan ==
    /\ pc = "start"
    /\ text \in StringsUpTo(ScanAlphabet, MaxScanLen) \cup ExampleTexts
    /\ delimiter = "auto"
    /\ headers_list = <<>> /\ rows = <<>> /\ used_d = ""
    /\ result = <<>> /\ result2 = <<>> /\ tok = tok_init
    /\ encIdle /\ mergeIdle /\ sortIdle /\ batchIdle

\* Newline normalization, delimiter resolution and the loop's locals.
ScanStart ==
    /\ pc = "start"
    /\ used_d' = resolve_delimiter(scanned, delimiter)
    /\ tok' = tok_init
    /\ pc' = "scan"
    /\ UNCHANGED <<batchVars, text, delimiter, headers_list, rows, result, result2,
                   encVars, mergeVars, sortVars>>

\* while i < n: one turn of the loop
ScanStep ==
    /\ pc = "scan"
    /\ tok.i <= Len(scanned)
    /\ tok' = tok_step(scanned, used_d, tok)
    /\ UNCHANGED <<batchVars, pc, text, delimiter, headers_list, rows, used_d, result,
                   result2, encVars, mergeVars, sortVars>>

\* The loop's exit: final flush, header extraction, column normalization
\* and rows_to_objects.
ScanFinish ==
    /\ pc = "scan"
    /\ tok.i > Len(scanned)
    /\ LET flushed_row == Append(tok.row, tok.field)
           all_rows == Append(tok.rows, flushed_row)
           hs == clean_headers(Head(all_rows))
           rs == normalize_rows(Tail(all_rows), Len(hs))
       IN /\ tok' = [tok EXCEPT !.row = flushed_row, !.rows = all_rows]
          /\ headers_list' = hs
          /\ rows' = rs
          /\ result' = rows_to_objects(rs, hs)
    /\ pc' = "parsed"
    /\ UNCHANGED <<batchVars, text, delimiter, used_d, result2, encVars, mergeVars, sortVars>>

\* parse_csv(text + "\n", delimiter)
ParseTerminated ==
    /\ pc = "parsed"
    /\ result2' = parse_csv(Append(text, LF), delimiter)
    /\ pc' = "terminated"
    /\ UNCHANGED <<batchVars, text, delimiter, headers_list, rows, used_d, result, tok,
                   encVars, mergeVars, sortVars>>

NextScan == ScanStart \/ ScanStep \/ ScanFinish \/ ParseTerminated

SpecScan == InitScan /\ [][NextScan]_vars

-----------------------------------------------------------------------------
(* The same steps under an explicit delimiter argument. *)

MaxDelimTextLen == 3

InitDelim ==
    /\ pc = "start"
    /\ text \in StringsUpTo({"a", ",", ";", LF}, MaxDelimTextLen) \cup ExampleTexts
    /\ delimiter \in ExplicitDelimiters
    /\ headers_list = <<>> /\ rows = <<>> /\ used_d = ""
    /\ result = <<>> /\ result2 = <<>> /\ tok = tok_init
    /\ encIdle /\ mergeIdle /\ sortIdle /\ batchIdle

SpecDelim == InitDelim /\ [][NextScan]_vars

-----------------------------------------------------------------------------
(* The encode / decode pipeline: a record list is written under a supplied  *)
(* header and delimiter, and the written text is parsed with the same       *)
(* delimiter.                                                               *)

K == <<"k">>
Z == <<"z">>
X == <<"x">>

\* The value of the specification's quoting example, and its cell.
ExampleValue ==
    <<"H", "e", " ", "s", "a", "i", "d", " ", QUOTE, "h", "i", QUOTE, ",", " ", "o", "k">>
ExampleCell ==
    <<QUOTE, "H", "e", " ", "s", "a", "i", "d", " ", QUOTE, QUOTE, "h", "i",
      QUOTE, QUOTE, ",", " ", "o", "k", QUOTE>>

CellValues == StringsUpTo(Alphabet, MaxCellLen) \cup {ExampleValue}

\* One record of two fields, one of them the value v and the other non-blank.
CellInputs ==
    {[recs |-> << <<[key |-> K, val |-> v], [key |-> Z, val |-> <<"x">>]>> >>,
      hs |-> <<K, Z>>] : v \in CellValues}
    \cup
    {[recs |-> << <<[key |-> K, val |-> <<"x">>], [key |-> Z, val |-> v]>> >>,
      hs |-> <<K, Z>>] : v \in CellValues}

\* A value that needs quoting under every delimiter.
QuotedValue == <<",", LF, QUOTE>>
Absent == <<"Absent">>

\* Records that lack a header's key, hold None under it, or hold a key (x)
\* that no header names.
opt(k, v) == IF v = Absent THEN <<>> ELSE <<[key |-> k, val |-> v]>>
EncDicts ==
    {opt(X, xv) \o opt(K, kv) \o opt(Z, zv) :
        xv \in {Absent, <<"b">>}, kv \in {Absent, None, QuotedValue},
        zv \in {Absent, <<"a">>}}
EncInputs ==
    {[recs |-> r, hs |-> h] :
        r \in StringsUpTo(EncDicts, MaxRecords),
        h \in StringsUpTo({K, Z}, MaxHeaders)}

InitEnc ==
    /\ pc = "start"
    /\ \/ \E inp \in CellInputs :
            /\ records = inp.recs /\ headers = inp.hs
            /\ delimiter \in {",", TAB, ";"}
       \/ \E inp \in EncInputs :
            /\ records = inp.recs /\ headers = inp.hs
            /\ delimiter = ","
    /\ include_bom \in BOOLEAN
    /\ csv = <<>>
    /\ text = <<>> /\ headers_list = <<>> /\ rows = <<>> /\ used_d = ""
    /\ result = <<>> /\ result2 = <<>> /\ tok = tok_init
    /\ mergeIdle /\ sortIdle /\ batchIdle

\* to_csv(records, headers, delimiter=delimiter, include_bom=include_bom)
Encode ==
    /\ pc = "start"
    /\ csv' = to_csv(records, headers, delimiter, include_bom, LF)
    /\ pc' = "encoded"
    /\ UNCHANGED <<batchVars, records, headers, include_bom, decVars, mergeVars, sortVars>>

\* parse_csv(csv, delimiter)
Decode ==
    /\ pc = "encoded"
    /\ text' = csv
    /\ LET a == _analyze_csv(csv, delimiter) IN
        /\ rows' = a.rows
        /\ headers_list' = a.headers
        /\ used_d' = a.delimiter
        /\ result' = rows_to_objects(a.rows, a.headers)
    /\ pc' = "decoded"
    /\ UNCHANGED <<batchVars, delimiter, result2, tok, encVars, mergeVars, sortVars>>

NextEnc == Encode \/ Decode

SpecEnc == InitEnc /\ [][NextEnc]_vars

-----------------------------------------------------------------------------
(* to_csv alone: one cell, of a header or of a record, takes every value    *)
(* over the characters the quoting rule looks at, under each delimiter and   *)
(* each include_bom.                                                         *)

MaxWriteLen == 3

WriteAlphabet == {"a", ",", ";", QUOTE, LF, CR, " "}
WriteValues == StringsUpTo(WriteAlphabet, MaxWriteLen)

\* The value v as a record's value, and as a header name.
WriteInputs ==
    {[recs |-> << <<[key |-> K, val |-> v], [key |-> Z, val |-> <<"x">>]>> >>,
      hs |-> <<K, Z>>] : v \in WriteValues}
    \cup
    {[recs |-> << <<[key |-> v, val |-> <<"x">>], [key |-> Z, val |-> <<"x">>]>> >>,
      hs |-> <<v, Z>>] : v \in WriteValues}

\* No records, no header, and a header name that begins with U+FEFF itself.
WriteExamples ==
    {[recs |-> <<>>, hs |-> << <<"a">> >>],
     [recs |-> <<>>, hs |-> <<>>],
     [recs |-> << <<[key |-> K, val |-> <<"x">>]>> >>, hs |-> <<>>],
     [recs |-> << <<[key |-> K, val |-> None]>>, <<[key |-> Z, val |-> <<"x">>]>> >>,
      hs |-> <<K, Z>>],
     [recs |-> <<>>, hs |-> << <<BOM, "a">> >>]}

InitWrite ==
    /\ pc = "start"
    /\ \E inp \in WriteInputs \cup WriteExamples :
            records = inp.recs /\ headers = inp.hs
    /\ delimiter \in {",", ";"}
    /\ include_bom \in BOOLEAN
    /\ csv = <<>>
    /\ text = <<>> /\ headers_list = <<>> /\ rows = <<>> /\ used_d = ""
    /\ result = <<>> /\ result2 = <<>> /\ tok = tok_init
    /\ mergeIdle /\ sortIdle /\ batchIdle

SpecWrite == InitWrite /\ [][Encode]_vars

-----------------------------------------------------------------------------
(* Common.merge_lists *)

ID == <<"i", "d">>
V == <<"v">>

\* The outcome of a call: the value returned, or the exception raised.
Returned(v) == [error |-> "", value |-> v]
Raised(e) == [error |-> e, value |-> <<>>]

\* An upsert that leaves a key that is already indexed alone.
upsert_keep_first(index, item) ==
    IF dict_has(index, dict_get(item, ID, None)) THEN index
    ELSE dict_set(index, dict_get(item, ID, None), item)

\* An upsert that moves an overwritten key to the end of the index.
upsert_move_last(index, item) ==
    LET k == dict_get(item, ID, None)
    IN Append(SelectSeq(index, LAMBDA e : e.key # k), [key |-> k, val |-> item])

\* merged[item["id"]] = item.copy()
upsert(index, item) == dict_set(index, dict_get(item, ID, None), item)

\* The same statement applied to every item of a list, in order.
RECURSIVE upsert_all(_, _)
upsert_all(index, items) ==
    IF items = <<>> THEN index
    ELSE upsert_all(upsert(index, Head(items)), Tail(items))

\* item["id"] raises KeyError for an item that has no "id".
has_id(item) == dict_has(item, ID)

\* A merge that passes over the items that have no "id".
merge_lists_skipping(base, updates) ==
    Returned(dict_values(upsert_all(upsert_all(<<>>, SelectSeq(base, has_id)),
                                    SelectSeq(updates, has_id))))

\* A merge that indexes an item without "id" under one shared key.
merge_lists_bucket(base, updates) ==
    Returned(dict_values(upsert_all(upsert_all(<<>>, base), updates)))

\* A merge that indexes nothing: the updates follow the base.
merge_lists_appending(base, updates) == Returned(base \o updates)

merge_lists(base, updates) ==
    IF \E i \in 1..Len(base) : ~has_id(base[i]) THEN Raised("KeyError")
    ELSE IF \E i \in 1..Len(updates) : ~has_id(updates[i]) THEN Raised("KeyError")
    ELSE Returned(dict_values(upsert_all(upsert_all(<<>>, base), updates)))

MergeIds == {<<"1">>, <<"0", "1">>, <<"2">>}
MergeVals == {<<"a">>, <<"b">>}
MergeRecords ==
    {<<[key |-> ID, val |-> i], [key |-> V, val |-> v]>> : i \in MergeIds, v \in MergeVals}
    \cup {<<[key |-> V, val |-> <<"a">>]>>}

Rec(i, v) == <<[key |-> ID, val |-> i], [key |-> V, val |-> v]>>
\* The lists of the specification's merge example.
ExampleBase == <<Rec(<<"1">>, <<"a">>), Rec(<<"2">>, <<"b">>)>>
ExampleUpdates == <<Rec(<<"2">>, <<"c">>), Rec(<<"3">>, <<"d">>)>>
ExampleMerged == <<Rec(<<"1">>, <<"a">>), Rec(<<"2">>, <<"c">>), Rec(<<"3">>, <<"d">>)>>

InitMerge ==
    /\ pc = "start"
    /\ \/ /\ base_list \in StringsUpTo(MergeRecords, MaxMergeLen)
          /\ update_list \in StringsUpTo(MergeRecords, MaxMergeLen)
       \/ base_list = ExampleBase /\ update_list = ExampleUpdates
    /\ merged = Returned(<<>>) /\ remerged = Returned(<<>>)
    /\ decIdle /\ encIdle /\ sortIdle /\ batchIdle

\* merge_lists(base_list, update_list)
Merge ==
    /\ pc = "start"
    /\ merged' = merge_lists(base_list, update_list)
    /\ pc' = "merged"
    /\ UNCHANGED <<batchVars, base_list, update_list, remerged, decVars, encVars, sortVars>>

\* merge_lists(merged, update_list): the returned list merged with the same
\* updates once more
MergeAgain ==
    /\ pc = "merged" /\ merged.error = ""
    /\ remerged' = merge_lists(merged.value, update_list)
    /\ pc' = "remerged"
    /\ UNCHANGED <<batchVars, base_list, update_list, merged, decVars, encVars, sortVars>>

NextMerge == Merge \/ MergeAgain

SpecMerge == InitMerge /\ [][NextMerge]_vars

-----------------------------------------------------------------------------
(* Common.sort_list: the sort key *)

N == <<"n">>
Digits == <<"0", "1", "2", "3", "4", "5", "6", "7", "8", "9">>

is_digit_char(c) == \E i \in 1..Len(Digits) : Digits[i] = c
digit_val(c) == (CHOOSE i \in 1..Len(Digits) : Digits[i] = c) - 1

\* s.isdigit(), for the characters of the model
isdigit(s) == s # <<>> /\ \A i \in 1..Len(s) : is_digit_char(s[i])

\* s.replace(".", "", 1)
remove_first_dot(s) ==
    IF ~contains(s, ".") THEN s
    ELSE LET k == CHOOSE i \in 1..Len(s) :
                     s[i] = "." /\ \A j \in 1..(i - 1) : s[j] # "."
         IN SubSeq(s, 1, k - 1) \o SubSeq(s, k + 1, Len(s))

\* int(s) for a string of decimal digits
RECURSIVE to_int(_)
to_int(s) ==
    IF s = <<>> THEN 0
    ELSE to_int(SubSeq(s, 1, Len(s) - 1)) * 10 + digit_val(s[Len(s)])

RECURSIVE pow10(_)
pow10(k) == IF k = 0 THEN 1 ELSE 10 * pow10(k - 1)

\* A sort key is a number n/d, a datetime <<Y, m, d, H, M, S>> or a str.
NumKey(n, d) == [t |-> "num", n |-> n, d |-> d, s |-> <<>>]
DateKey(fields) == [t |-> "date", n |-> 0, d |-> 1, s |-> fields]
StrKey(s) == [t |-> "str", n |-> 0, d |-> 1, s |-> s]

\* float(value) if "." in value else int(value), as the exact decimal it
\* denotes (short decimals convert to distinct floats in the same order).
parse_number(value) ==
    IF contains(value, ".")
    THEN LET k == CHOOSE i \in 1..Len(value) : value[i] = "."
         IN NumKey(to_int(remove_first_dot(value)), pow10(Len(value) - k))
    ELSE NumKey(to_int(value), 1)

\* The directives of datetime.strptime, each matching a whole token.
value_in(s, maxlen, lo, hi) ==
    /\ isdigit(s) /\ Len(s) <= maxlen
    /\ to_int(s) >= lo /\ to_int(s) <= hi
\* %Y: \d\d\d\d
match_Y(s) == isdigit(s) /\ Len(s) = 4
\* %m: 1[0-2]|0[1-9]|[1-9]
match_m(s) == value_in(s, 2, 1, 12)
\* %d: 3[01]|[12]\d|0[1-9]|[1-9]| [1-9]
match_d(s) ==
    \/ value_in(s, 2, 1, 31)
    \/ Len(s) = 2 /\ s[1] = " " /\ value_in(<<s[2]>>, 1, 1, 9)
day_of(s) == IF s[1] = " " THEN to_int(<<s[2]>>) ELSE to_int(s)
\* %H: 2[0-3]|[0-1]\d|\d
match_H(s) == value_in(s, 2, 0, 23)
\* %M: [0-5]\d|\d
match_M(s) == value_in(s, 2, 0, 59)
\* %S: 6[0-1]|[0-5]\d|\d
match_S(s) == value_in(s, 2, 0, 61)

is_leap(y) == (y % 4 = 0 /\ y % 100 # 0) \/ y % 400 = 0
days_in_month(y, m) ==
    IF m = 2 THEN (IF is_leap(y) THEN 29 ELSE 28)
    ELSE IF m \in {4, 6, 9, 11} THEN 30 ELSE 31

\* datetime(y, m, d, H, M, S) raises ValueError outside these ranges.
valid_datetime(y, m, d, H, M, S) ==
    y >= 1 /\ d <= days_in_month(y, m) /\ S <= 59

NoDate == <<>>

\* strptime(value, "%Y<sep>%m<sep>%d"): the fields, or NoDate on ValueError.
strptime_date(value, sep) ==
    LET p == split(value, sep) IN
    IF Len(p) = 3 /\ match_Y(p[1]) /\ match_m(p[2]) /\ match_d(p[3])
       /\ valid_datetime(to_int(p[1]), to_int(p[2]), day_of(p[3]), 0, 0, 0)
    THEN <<to_int(p[1]), to_int(p[2]), day_of(p[3]), 0, 0, 0>>
    ELSE NoDate

\* The digits a string ends with.
trailing_digits(s) ==
    LET k == IF \A i \in 1..Len(s) : is_digit_char(s[i]) THEN 0
             ELSE CHOOSE i \in 1..Len(s) :
                     ~is_digit_char(s[i]) /\ \A j \in (i + 1)..Len(s) : is_digit_char(s[j])
    IN SubSeq(s, k + 1, Len(s))

\* strptime(value, "%Y-%m-%d %H:%M:%S"); the blank of the format matches \s+.
strptime_datetime(value) ==
    LET p == split(value, "-")
        q == IF Len(p) = 3 THEN split(p[3], ":") ELSE <<>>
        hh == IF Len(q) = 3 THEN trailing_digits(q[1]) ELSE <<>>
        pre == IF Len(q) = 3 THEN SubSeq(q[1], 1, Len(q[1]) - Len(hh)) ELSE <<>>
        dd == rstrip(pre)
    IN IF /\ Len(p) = 3 /\ Len(q) = 3
          /\ match_Y(p[1]) /\ match_m(p[2])
          /\ pre # dd /\ match_d(dd)
          /\ match_H(hh) /\ match_M(q[2]) /\ match_S(q[3])
          /\ valid_datetime(to_int(p[1]), to_int(p[2]), day_of(dd),
                            to_int(hh), to_int(q[2]), to_int(q[3]))
       THEN <<to_int(p[1]), to_int(p[2]), day_of(dd),
              to_int(hh), to_int(q[2]), to_int(q[3])>>
       ELSE NoDate

\* sort_key(item), for an item whose value under key is a str, None or absent.
sort_key(item, key) ==
    LET value == dict_get(item, key, <<>>) IN
    IF value = None THEN StrKey(<<>>)
    ELSE IF isdigit(remove_first_dot(value)) THEN parse_number(value)
    ELSE IF strptime_date(value, "-") # NoDate THEN DateKey(strptime_date(value, "-"))
    ELSE IF strptime_date(value, "/") # NoDate THEN DateKey(strptime_date(value, "/"))
    ELSE IF strptime_datetime(value) # NoDate THEN DateKey(strptime_datetime(value))
    ELSE StrKey(value)

-----------------------------------------------------------------------------
(* Common.sort_list: the comparison of keys and sorted() *)

\* The characters of the model in code point order.
CodeOrder ==
    <<TAB, LF, CR, " ", QUOTE, ",", "-", ".", "/",
      "0", "1", "2", "3", "4", "5", "6", "7", "8", "9", ":", ";",
      "H", "a", "b", "c", "d", "e", "h", "i", "k", "n", "o", "s", "v", "x", "z", BOM>>
ord(c) == CHOOSE i \in 1..Len(CodeOrder) : CodeOrder[i] = c

\* a < b for two str
str_lt(a, b) ==
    \E k \in 1..Len(b) :
        /\ \A j \in 1..(k - 1) : j <= Len(a) /\ a[j] = b[j]
        /\ k > Len(a) \/ ord(a[k]) < ord(b[k])

\* a < b for two datetimes
date_lt(a, b) ==
    \E k \in 1..Len(b) : a[k] < b[k] /\ \A j \in 1..(k - 1) : a[j] = b[j]

\* Python compares int and float with each other, str with str and datetime
\* with datetime; every other pair raises TypeError.
comparable(a, b) == a.t = b.t

key_lt(a, b) ==
    IF a.t = "num" THEN a.n * b.d < b.n * a.d
    ELSE IF a.t = "date" THEN date_lt(a.s, b.s)
    ELSE str_lt(a.s, b.s)

key_eq(a, b) == ~key_lt(a, b) /\ ~key_lt(b, a)

Reverse(s) == [i \in 1..Len(s) |-> s[Len(s) + 1 - i]]

\* sorted() computes the key of every item once and sorts the pairs.
keyed(items, key) == [i \in 1..Len(items) |-> [k |-> sort_key(items[i], key), item |-> items[i]]]

\* x goes before the first element whose key is greater than x's.
insert_stable(done, x) ==
    LET k == IF \A i \in 1..Len(done) : ~key_lt(x.k, done[i].k)
             THEN Len(done) + 1
             ELSE CHOOSE i \in 1..Len(done) :
                     /\ key_lt(x.k, done[i].k)
                     /\ \A j \in 1..(i - 1) : ~key_lt(x.k, done[j].k)
    IN SubSeq(done, 1, k - 1) \o <<x>> \o SubSeq(done, k, Len(done))

\* The stable ascending sort of list.sort.
RECURSIVE stable_sort(_)
stable_sort(pairs) ==
    IF pairs = <<>> THEN <<>>
    ELSE insert_stable(stable_sort(SubSeq(pairs, 1, Len(pairs) - 1)), pairs[Len(pairs)])

\* A descending sort made by reversing the ascending result.
sort_then_reverse(pairs, rev) ==
    IF rev THEN Reverse(stable_sort(pairs)) ELSE stable_sort(pairs)

\* list.sort(reverse=True) reverses the list, sorts it and reverses it again.
sort_pairs(pairs, rev) ==
    IF rev THEN Reverse(stable_sort(Reverse(pairs))) ELSE stable_sort(pairs)

\* sorted() raises TypeError as soon as it compares two keys that do not
\* compare, which it does whenever the list holds two such keys.
sort_list(items, key, rev) ==
    LET pairs == keyed(items, key) IN
    IF \E i, j \in 1..Len(pairs) : ~comparable(pairs[i].k, pairs[j].k)
    THEN Raised("TypeError")
    ELSE LET out == sort_pairs(pairs, rev) IN Returned([i \in 1..Len(out) |-> out[i].item])

\* The values of the sorted field: numbers, dates, strings, None, or no field.
SortValues ==
    {<<"1">>, <<"2">>, <<"2", ".", "0">>, <<"1", "0">>, <<".", "5">>,
     <<"a">>, <<>>, None, Absent,
     <<"2", "0", "2", "4", "-", "0", "1", "-", "0", "5">>,
     <<"2", "0", "2", "4", "/", "1", "/", "5">>,
     <<"2", "0", "2", "4", "-", "0", "2", "-", "3", "0">>,
     <<"2", "0", "2", "3", "-", "1", "2", "-", "3", "1", " ",
       "2", "3", ":", "5", "9", ":", "5", "9">>}

\* The record at position i: its id is its position, its n the value v.
SortRecord(i, v) == <<[key |-> ID, val |-> <<Digits[i + 1]>>]>> \o opt(N, v)

InitSort ==
    /\ pc = "start"
    /\ \E vs \in StringsUpTo(SortValues, MaxSortLen) :
          list_data = [i \in 1..Len(vs) |-> SortRecord(i, vs[i])]
    /\ reverse \in BOOLEAN
    /\ sorted_list = Returned(<<>>)
    /\ decIdle /\ encIdle /\ mergeIdle /\ batchIdle

\* sort_list(list_data, "n", reverse)
Sort ==
    /\ pc = "start"
    /\ sorted_list' = sort_list(list_data, N, reverse)
    /\ pc' = "sorted"
    /\ UNCHANGED <<batchVars, list_data, reverse, decVars, encVars, mergeVars>>

NextSort == Sort

SpecSort == InitSort /\ [][NextSort]_vars

-----------------------------------------------------------------------------
(* Properties of the decode / encode / decode pipeline (SpecCsv). *)

DistinctNames(hs) == \A i, j \in 1..Len(hs) : hs[i] = hs[j] => i = j

\* C1: parsing a text, writing the records back under the discovered header
\* with the encoder's defaults and parsing the written text again gives the
\* records of the first parse: no field value changes, no record is added
\* or removed. Stated for the texts whose header names are pairwise
\* distinct, the headers a record set can represent.
C1_RoundTrip ==
    (pc = "reparsed" /\ DistinctNames(headers_list)) => list_eq(result2, result)

\* The elements of a sequence in the order of their first occurrence.
RECURSIVE FirstOccurrences(_)
FirstOccurrences(xs) ==
    IF xs = <<>> THEN <<>>
    ELSE LET f == FirstOccurrences(SubSeq(xs, 1, Len(xs) - 1))
             x == xs[Len(xs)]
         IN IF \E i \in 1..Len(f) : f[i] = x THEN f ELSE Append(f, x)

LastColumn(hs, h) ==
    CHOOSE i \in 1..Len(hs) : hs[i] = h /\ \A j \in (i + 1)..Len(hs) : hs[j] # h

\* C3 as stated: every record of a parse has exactly len(header) fields, one
\* per header cell, in header order, whatever header the tokenizer produced.
C3_RecordWidth ==
    pc # "start" =>
        \A r \in 1..Len(result) :
            /\ Len(result[r]) = Len(headers_list)
            /\ dict_keys(result[r]) = headers_list

\* C3 amended: every record of a parse has one field per distinct header
\* name, in the order of the names' first occurrence, holding the value of
\* the last column of that name; when the header names are pairwise distinct
\* this is exactly len(header) fields, one per header cell, in header order.
C3_RecordFields ==
    pc # "start" =>
        /\ Len(result) = Len(rows)
        /\ \A r \in 1..Len(result) :
            /\ Len(rows[r]) = Len(headers_list)
            /\ dict_keys(result[r]) = FirstOccurrences(headers_list)
            /\ \A k \in 1..Len(result[r]) :
                  result[r][k].val = rows[r][LastColumn(headers_list, result[r][k].key)]
            /\ DistinctNames(headers_list) =>
                  /\ Len(result[r]) = Len(headers_list)
                  /\ dict_keys(result[r]) = headers_list
                  /\ dict_values(result[r]) = rows[r]

\* A parse whose header has two distinct names and that returned a record.
C3_Witness ==
    /\ pc = "parsed"
    /\ Len(headers_list) = 2 /\ DistinctNames(headers_list)
    /\ Len(result) >= 1 /\ Len(result[1]) = 2

\* C4: no data row that is blank at the header width is in the output of a
\* parse, one whose only non-blank fields lay beyond the header width
\* included, so that (for header names that are pairwise distinct) no record
\* has all of its values empty after trimming; the text a,b / 1,2 / , / 3,4
\* gives exactly two records.
C4_NoBlankRecord ==
    pc # "start" =>
        /\ \A r \in 1..Len(rows) : ~is_blank_row(rows[r])
        /\ DistinctNames(headers_list) =>
              \A r \in 1..Len(result) : ~is_blank_row(dict_values(result[r]))
        /\ text = TextBlankRow => Len(result) = 2

\* The line delimiter detection looks at.
DetectionLine == first_line(normalize_newlines(text))

\* The number of fields of a line under delimiter d, where a d that has an
\* odd number of double quotes before it lies inside a quoted field.
FieldCount(line, d) ==
    1 + Cardinality({i \in 1..Len(line) :
            /\ line[i] = d
            /\ Cardinality({j \in 1..(i - 1) : line[j] = QUOTE}) % 2 = 0})

Candidates == {",", TAB, ";"}

MaxCount(line) ==
    CHOOSE m \in {FieldCount(line, c) : c \in Candidates} :
        \A c \in Candidates : FieldCount(line, c) <= m
MaxFieldCount == MaxCount(DetectionLine)

\* C9: with delimiter "auto" the delimiter used is one of the three
\* candidates and its quote-aware field count on the first non-blank line is
\* the highest of the three; a,b,c selects the comma, a;b;c the semicolon,
\* and "a,b";c the semicolon.
C9_DelimiterDetection ==
    pc # "start" =>
        /\ used_d \in Candidates
        /\ LET line == DetectionLine
           IN FieldCount(line, used_d) = MaxCount(line)
        /\ text = TextCommas => used_d = ","
        /\ text = TextSemis => used_d = ";"
        /\ text = TextQuotedComma => used_d = ";"

\* A line whose only comma lies inside quotes and that selects the semicolon.
C9_Witness ==
    /\ pc = "parsed"
    /\ used_d = ";"
    /\ contains(DetectionLine, ",")
    /\ FieldCount(DetectionLine, ",") = 1

\* Two or more candidates reach the highest field count.
Tied ==
    LET line == DetectionLine
        m == MaxCount(line)
    IN \E c1, c2 \in Candidates :
          /\ c1 # c2
          /\ FieldCount(line, c1) = m
          /\ FieldCount(line, c2) = m

\* C10 as stated: whenever two or more candidates tie for the highest field
\* count, the comma is selected.
C10_TieSelectsComma == (pc # "start" /\ Tied) => used_d = ","

\* C10 amended: whenever the comma is among the candidates with the highest
\* field count (so also when no candidate yields more than one field) the
\* comma is selected; when only TAB and the semicolon tie for the highest
\* count, TAB, the earlier candidate, is selected.
C10_TieSelectsEarliest ==
    pc # "start" =>
        LET line == DetectionLine
            m == MaxCount(line)
            commas == FieldCount(line, ",")
        IN /\ commas = m => used_d = ","
           /\ (commas < m /\ Tied) => used_d = TAB
           /\ m <= 1 => used_d = ","

\* The comma and another candidate both split the line into the most fields.
C10_Witness ==
    /\ pc = "parsed"
    /\ Tied
    /\ MaxFieldCount >= 2
    /\ FieldCount(DetectionLine, ",") = MaxFieldCount
    /\ used_d = ","

-----------------------------------------------------------------------------
(* Properties of the encode / decode pipeline (SpecEnc). *)

\* The string to_csv writes for record i under header j.
Cell(i, j) ==
    LET v == dict_get(records[i], headers[j], <<>>) IN IF v = None THEN <<>> ELSE v

\* Every record has a non-blank field under the headers.
NonBlankRecords ==
    /\ Len(headers) > 0
    /\ \A i \in 1..Len(records) : \E j \in 1..Len(headers) : strip(Cell(i, j)) # <<>>

ExampleRecords == << <<[key |-> K, val |-> ExampleValue], [key |-> Z, val |-> <<"x">>]>> >>
ExampleCsv ==
    (IF include_bom THEN <<BOM>> ELSE <<>>)
        \o <<"k", ",", "z", LF>> \o ExampleCell \o <<",", "x">>

\* C2 as stated: every value stored in a record that has a non-blank field,
\* CR included, is tokenized from the cell to_csv wrote for it back to
\* exactly that value.
C2_CellRoundTripAnyValue ==
    (pc = "decoded" /\ NonBlankRecords) =>
        /\ Len(rows) = Len(records)
        /\ \A i \in 1..Len(records) : \A j \in 1..Len(headers) :
              rows[i][j] = Cell(i, j)

\* C2 amended: every value that holds no CR, stored in a record that has a
\* non-blank field, is tokenized from the cell to_csv wrote for it back to
\* exactly that value (a value that holds CR comes back with each CRLF and
\* CR turned into LF); He said "hi", ok is written as
\* "He said ""hi"", ok" and decodes back unchanged.
C2_CellRoundTrip ==
    (pc = "decoded" /\ NonBlankRecords) =>
        /\ Len(rows) = Len(records)
        /\ \A i \in 1..Len(records) : \A j \in 1..Len(headers) :
              /\ ~contains(Cell(i, j), CR) => rows[i][j] = Cell(i, j)
              /\ rows[i][j] = normalize_newlines(Cell(i, j))
        /\ (records = ExampleRecords /\ headers = <<K, Z>> /\ delimiter = ",") =>
              csv = ExampleCsv

\* The example value was written, and read back unchanged.
C2_Witness ==
    /\ pc = "decoded"
    /\ records = ExampleRecords /\ headers = <<K, Z>> /\ delimiter = ","
    /\ csv = ExampleCsv
    /\ rows = << <<ExampleValue, <<"x">>>> >>

\* The text to_csv wrote, without the byte order mark it was asked to add.
CsvBody == IF include_bom THEN Tail(csv) ELSE csv

\* C5: to_csv writes the header row first and then one row per record in
\* input order, joined by the newline with none at the end; every row has
\* len(headers) cells, the cell under header h being the record's value for
\* h, empty when the record lacks h or holds None; keys that are no header
\* do not appear.
C5_EncoderRows ==
    pc # "start" =>
        LET out == tokenize(CsvBody, delimiter) IN
        /\ Len(out) = 1 + Len(records)
        /\ \A r \in 1..Len(out) :
              IF headers = <<>> THEN out[r] = << <<>> >>
              ELSE /\ Len(out[r]) = Len(headers)
                   /\ \A j \in 1..Len(headers) :
                         out[r][j] = IF r = 1 THEN headers[j] ELSE Cell(r - 1, j)

\* Two records under two headers: one lacks a header's key and holds a key
\* that is no header, one holds None.
C5_Witness ==
    /\ pc = "encoded"
    /\ Len(records) = 2 /\ Len(headers) = 2
    /\ \E i \in 1..2 : ~dict_has(records[i], headers[1]) /\ dict_has(records[i], X)
    /\ \E i \in 1..2 : \E j \in 1..2 : dict_get(records[i], headers[j], <<>>) = None

-----------------------------------------------------------------------------
(* Properties of merge_lists (SpecMerge). *)

IdOf(item) == dict_get(item, ID, None)
IdsOf(items) == {IdOf(items[i]) : i \in 1..Len(items)}
IdSeq(items) == [i \in 1..Len(items) |-> IdOf(items[i])]
AllHaveId ==
    /\ \A i \in 1..Len(base_list) : has_id(base_list[i])
    /\ \A i \in 1..Len(update_list) : has_id(update_list[i])
LastWith(items, id) ==
    items[CHOOSE i \in 1..Len(items) :
             IdOf(items[i]) = id /\ \A j \in (i + 1)..Len(items) : IdOf(items[j]) # id]

\* C6: when every record has an id, the merge holds exactly one record for
\* each distinct id of base or updates; for an id of updates it is the last
\* update record of that id, for an id of base alone it has the base
\* record's field values.
C6_MergeOnePerId ==
    (pc = "merged" /\ AllHaveId) =>
        /\ merged.error = ""
        /\ LET out == merged.value IN
            /\ IdsOf(out) = IdsOf(base_list) \cup IdsOf(update_list)
            /\ DistinctNames(IdSeq(out))
            /\ \A i \in 1..Len(out) :
                  IF IdOf(out[i]) \in IdsOf(update_list)
                  THEN dict_eq(out[i], LastWith(update_list, IdOf(out[i])))
                  ELSE dict_eq(out[i], LastWith(base_list, IdOf(out[i])))

\* An id of base alone, an id of both with different values, an id of
\* updates alone.
C6_Witness ==
    /\ pc = "merged" /\ AllHaveId
    /\ \E i \in 1..Len(base_list) : IdOf(base_list[i]) \notin IdsOf(update_list)
    /\ \E i \in 1..Len(update_list) : IdOf(update_list[i]) \notin IdsOf(base_list)
    /\ \E i \in 1..Len(base_list) : \E j \in 1..Len(update_list) :
          /\ IdOf(base_list[i]) = IdOf(update_list[j])
          /\ ~dict_eq(base_list[i], update_list[j])
    /\ Len(merged.value) = 3

\* C7: in the merge the ids of base come first, in the order of their first
\* occurrence in base, an overwritten id keeping its place; the ids of
\* updates alone follow in the order of their first occurrence in updates.
\* Base ids [1,2] merged with update ids [2,3] give [1,2,3], record 2 being
\* the update's.
C7_MergeOrder ==
    (pc = "merged" /\ AllHaveId) =>
        /\ IdSeq(merged.value) = FirstOccurrences(IdSeq(base_list) \o IdSeq(update_list))
        /\ (base_list = ExampleBase /\ update_list = ExampleUpdates) =>
              merged.value = ExampleMerged

\* The example: record 2 is overwritten in place, record 3 is appended.
C7_Witness ==
    /\ pc = "merged"
    /\ base_list = ExampleBase /\ update_list = ExampleUpdates
    /\ merged = Returned(ExampleMerged)

-----------------------------------------------------------------------------
(* Properties of sort_list (SpecSort). *)

KeysOf(items) == [i \in 1..Len(items) |-> sort_key(items[i], N)]
PosIn(item) == CHOOSE i \in 1..Len(list_data) : list_data[i] = item

\* C8: when the derived keys compare with each other, sort_list returns a
\* permutation of its input in non-decreasing order of key (non-increasing
\* with reverse=True), and in both directions records of equal key keep
\* their input order; n-values [2,2,1] of ids [1,2,3] give ids [3,1,2].
C8_StableSort ==
    LET keys == KeysOf(list_data) IN
    (pc = "sorted" /\ \A i, j \in 1..Len(keys) : comparable(keys[i], keys[j])) =>
        /\ sorted_list.error = ""
        /\ LET out == sorted_list.value
               k == KeysOf(out)
           IN
            /\ Len(out) = Len(list_data)
            /\ {out[i] : i \in 1..Len(out)} = {list_data[i] : i \in 1..Len(list_data)}
            /\ \A i, j \in 1..Len(out) :
                  i < j =>
                      /\ IF reverse THEN ~key_lt(k[i], k[j]) ELSE ~key_lt(k[j], k[i])
                      /\ key_eq(k[i], k[j]) => PosIn(out[i]) < PosIn(out[j])
            /\ (~reverse /\ [i \in 1..Len(list_data) |-> dict_get(list_data[i], N, None)]
                               = <<<<"2">>, <<"2">>, <<"1">>>>) =>
                  IdSeq(out) = <<<<"3">>, <<"1">>, <<"2">>>>

\* A descending sort of three records, two of them of equal key written
\* differently (2 and 2.0), that kept the two in input order.
C8_Witness ==
    /\ pc = "sorted" /\ reverse
    /\ Len(list_data) = 3
    /\ \E i, j \in 1..3 :
          /\ i < j
          /\ dict_get(list_data[i], N, None) = <<"2">>
          /\ dict_get(list_data[j], N, None) = <<"2", ".", "0">>
    /\ \E i \in 1..3 : dict_get(list_data[i], N, None) = <<"1", "0">>
    /\ sorted_list.error = ""

-----------------------------------------------------------------------------
(* Properties of the tokenizer loop (SpecScan). *)

\* The characters of a string.
CharsOf(s) == {s[i] : i \in 1..Len(s)}

\* rs is a list of records under the header hs whose values are made of
\* characters of the scanned text.
IsRecordList(rs, hs) ==
    \A r \in 1..Len(rs) :
        /\ DistinctNames(dict_keys(rs[r]))
        /\ CharsOf(dict_keys(rs[r])) = CharsOf(hs)
        /\ \A k \in 1..Len(rs[r]) : CharsOf(rs[r][k].val) \subseteq CharsOf(scanned)

\* Every turn of the loop moves the index forward, and never past the
\* position that follows the last character: the distance to that position
\* decreases at every turn, so the loop takes at most Len(scanned) turns.
ScanProgress ==
    (pc = "scan" /\ pc' = "scan") =>
        (tok'.i > tok.i /\ tok'.i <= Len(scanned) + 1)

\* A scan that has not returned can take a step: a turn of the loop, or the
\* loop's exit.
ScanNotStuck ==
    pc = "scan" => (tok.i \in 1..Len(scanned) \/ tok.i = Len(scanned) + 1)

\* C11: with delimiter "auto", whatever the text holds (an unterminated
\* quote, a quote that opens in the middle of a field, rows of different
\* widths, no trailing newline), the scan moves forward over the text at
\* every turn, so no character is consumed twice and the loop ends after at
\* most one turn per character; the scan is never stuck short of its return,
\* and what parse_csv returns is a list of records under the header.
C11_LenientTermination ==
    /\ [][ScanProgress]_vars
    /\ []ScanNotStuck
    /\ [](pc \in {"parsed", "terminated"} => IsRecordList(result, headers_list))

\* A text that ends inside an open quote, with a data row narrower or wider
\* than the header, has been parsed into records.
C11_Witness ==
    /\ pc = "parsed"
    /\ tok.in_quotes
    /\ result # <<>>
    /\ \E r \in 2..Len(tok.rows) : Len(tok.rows[r]) # Len(headers_list)

\* Position p of t is outside quotes: an even number of double quotes
\* precedes it.
OutsideQuotes(t, p) == Cardinality({q \in 1..(p - 1) : t[q] = QUOTE}) % 2 = 0
NewlinesOutsideQuotes(t) ==
    Cardinality({p \in 1..Len(t) : t[p] = LF /\ OutsideQuotes(t, p)})

\* The rows and the current row are as they were before the turn.
SameRow == tok'.row = tok.row /\ tok'.rows = tok.rows

\* What a turn of the loop does with the character it is on, for the
\* characters the quote state changes the meaning of.
QuoteStateStep ==
    (pc = "scan" /\ pc' = "scan") =>
        LET ch == scanned[tok.i]
            doubled == /\ tok.in_quotes /\ ch = QUOTE
                       /\ tok.i < Len(scanned) /\ scanned[tok.i + 1] = QUOTE
        IN /\ (tok.in_quotes /\ ch \in {used_d, LF}) =>
                (tok'.field = Append(tok.field, ch) /\ SameRow /\ tok'.in_quotes)
           /\ doubled =>
                /\ tok'.field = Append(tok.field, QUOTE) /\ SameRow
                /\ tok'.in_quotes /\ tok'.i = tok.i + 2
           /\ (ch = QUOTE /\ ~doubled) =>
                /\ tok'.field = tok.field /\ SameRow
                /\ tok'.in_quotes = ~tok.in_quotes /\ tok'.i = tok.i + 1

\* C17: while the in-quotes flag is set, a delimiter or an LF is appended to
\* the current field and ends neither the field nor the row, and a double
\* quote followed by another appends one quote and leaves the flag set; a
\* quote that opens or closes quote mode is not stored in any field; and the
\* scan produces one raw row more than the text has LFs outside quotes.
C17_QuoteState ==
    /\ [][QuoteStateStep]_vars
    /\ [](pc \in {"parsed", "terminated"} =>
            Len(tok.rows) = 1 + NewlinesOutsideQuotes(scanned))

\* A quoted field that holds an LF and a delimiter was scanned as one row of
\* one field, without its quotes.
C17_Witness ==
    /\ pc = "parsed"
    /\ scanned = <<QUOTE, LF, ",", QUOTE>>
    /\ used_d = ","
    /\ tok.rows = << << <<LF, ",">> >> >>

\* The text ends inside an open quote.
EndsInQuote == ~OutsideQuotes(scanned, Len(scanned) + 1)

\* The text has a last line that no newline ends.
Unterminated == scanned # <<>> /\ scanned[Len(scanned)] # LF

\* All fields of a raw row are empty or whitespace.
BlankRaw(r) == \A j \in 1..Len(r) : CharsOf(r[j]) \subseteq {" ", TAB, LF, CR}

\* C18: the last row of a text is decoded also when no newline follows it,
\* and for a text that does not end inside an open quote, parsing the text
\* followed by LF gives what parsing the text gives: the same records under
\* the same header names, none added.
C18_TrailingNewline ==
    /\ (pc \in {"parsed", "terminated"} /\ Unterminated /\ Len(tok.rows) >= 2
            /\ ~BlankRaw(tok.rows[Len(tok.rows)])) =>
          /\ rows # <<>>
          /\ \A j \in 1..Len(headers_list) :
                rows[Len(rows)][j] =
                    IF j <= Len(tok.rows[Len(tok.rows)])
                    THEN tok.rows[Len(tok.rows)][j] ELSE <<>>
    /\ (pc = "terminated" /\ ~EndsInQuote) => result2 = result

\* A data row without a trailing newline became a record, and the text with
\* the newline gave the same records.
C18_Witness ==
    /\ pc = "terminated"
    /\ Unterminated /\ ~EndsInQuote
    /\ headers_list = << <<"a">> >>
    /\ Len(result) >= 1
    /\ result2 = result

-----------------------------------------------------------------------------
(* Properties of the header and of the rows of a parse (SpecCsv, SpecScan). *)

\* C12: parsing the empty text gives a header of length 0, no rows and no
\* records.
C12_EmptyText ==
    (pc # "start" /\ text = <<>>) =>
        (Len(headers_list) = 0 /\ rows = <<>> /\ result = <<>>)

-----------------------------------------------------------------------------
(* Properties of merge_lists on records without an id (SpecMerge). *)

LacksId(rec) == \A k \in 1..Len(rec) : rec[k].key # ID
SomeLacksId(items) == \E i \in 1..Len(items) : LacksId(items[i])

\* C13: when a record of base or of updates has no id field, merge_lists
\* ends in the missing-key error and returns no list, neither a partial one
\* nor one that leaves the record out.
C13_MissingId ==
    (pc = "merged" /\ (SomeLacksId(base_list) \/ SomeLacksId(update_list))) =>
        (merged.error = "KeyError" /\ merged.value = <<>>)

\* The error is raised for an update without id after base records with ids
\* were indexed.
C13_Witness ==
    /\ pc = "merged"
    /\ base_list # <<>> /\ ~SomeLacksId(base_list)
    /\ SomeLacksId(update_list) /\ Len(update_list) = 2 /\ ~LacksId(update_list[1])
    /\ merged.error = "KeyError"

-----------------------------------------------------------------------------
(* Properties of parse_csv under an explicit delimiter (SpecDelim). *)

\* C14: parse_csv called with a delimiter other than "auto" that is not
\* exactly one character long (empty, or several characters) does not
\* return: it ends in an error before any record list is produced.
C14_UnsupportedDelimiter ==
    (delimiter # "auto" /\ Len(delimiter) # 1) =>
        pc \notin {"parsed", "terminated"}

-----------------------------------------------------------------------------
(* Properties of the text to_csv writes (SpecWrite). *)

\* s begins with the string prefix.
StartsWith(s, prefix) ==
    Len(s) >= Len(prefix) /\ SubSeq(s, 1, Len(prefix)) = prefix

\* What to_csv writes for the same records and header without the mark.
PlainCsv == to_csv(records, headers, delimiter, FALSE, LF)

\* C15: the text written with include_bom is one U+FEFF followed by the text
\* written without it, and the text written without it has no mark added: it
\* begins with the cell of the first header (with a newline or nothing when
\* there is no header); to_csv([], ["a"]) is U+FEFF followed by a.
C15_BomEmission ==
    pc # "start" =>
        /\ csv = (IF include_bom THEN <<BOM>> \o PlainCsv ELSE PlainCsv)
        /\ to_csv(records, headers, delimiter, TRUE, LF) = <<BOM>> \o PlainCsv
        /\ IF headers = <<>> THEN CharsOf(PlainCsv) \subseteq {LF}
           ELSE StartsWith(PlainCsv, emit_cell(headers[1], delimiter))
        /\ (headers = <<>> \/ ~StartsWith(headers[1], <<BOM>>)) =>
              ~StartsWith(PlainCsv, <<BOM>>)
        /\ to_csv(<<>>, << <<"a">> >>, ",", TRUE, LF) = <<BOM, "a">>

\* No records under one header, written with the mark: the mark and the
\* header name.
C15_Witness ==
    /\ pc = "encoded"
    /\ records = <<>> /\ headers = << <<"a">> >> /\ include_bom /\ delimiter = ","
    /\ csv = <<BOM, "a">>

\* The cell holds the delimiter, LF, CR or a double quote, or begins or ends
\* with whitespace.
MustQuote(v, d) ==
    \/ \E i \in 1..Len(v) : v[i] \in {d, LF, CR, QUOTE}
    \/ (v # <<>> /\ (IsSpace(v[1]) \/ IsSpace(v[Len(v)])))

\* The strings of a list one after the other.
RECURSIVE Flatten(_)
Flatten(parts) == IF parts = <<>> THEN <<>> ELSE Head(parts) \o Flatten(Tail(parts))

\* v with every double quote written twice.
Doubled(v) ==
    Flatten([i \in 1..Len(v) |-> IF v[i] = QUOTE THEN <<QUOTE, QUOTE>> ELSE <<v[i]>>])

ExpectedCell(v, d) ==
    IF MustQuote(v, d) THEN <<QUOTE>> \o Doubled(v) \o <<QUOTE>> ELSE v

\* Cell k of a written row, with the delimiter before it when it is not the
\* first.
Delimited(cells, d) ==
    Flatten([k \in 1..Len(cells) |->
                (IF k = 1 THEN <<>> ELSE <<d>>) \o ExpectedCell(cells[k], d)])

\* The rows to_csv is to write: the header, then the records' cells.
WrittenRows ==
    <<headers>> \o
    [i \in 1..Len(records) |-> [j \in 1..Len(headers) |-> Cell(i, j)]]

\* C16: every cell to_csv writes, of the header or of a record, is wrapped
\* in double quotes exactly when it holds the delimiter, LF, CR or a double
\* quote, or begins or ends with whitespace; a wrapped cell is the value with
\* each double quote doubled, any other cell is the value as it is.
C16_QuotingRule ==
    pc # "start" =>
        CsvBody =
            Flatten([r \in 1..Len(WrittenRows) |->
                        (IF r = 1 THEN <<>> ELSE <<LF>>)
                            \o Delimited(WrittenRows[r], delimiter)])

\* A header name quoted only for its leading whitespace, next to cells
\* written as they are.
C16_Witness ==
    /\ pc = "encoded"
    /\ headers = << <<" ", "a">>, Z >> /\ delimiter = ","
    /\ CsvBody = <<QUOTE, " ", "a", QUOTE, ",", "z", LF, "x", ",", "x">>

\* The raw data rows the decoder keeps: those that are not blank.
KeptRaw == SelectSeq(Tail(tok.rows), LAMBDA r : ~BlankRaw(r))

ShortRowRecords ==
    << <<[key |-> <<"a">>, val |-> <<"1">>], [key |-> <<"b">>, val |-> <<"2">>],
         [key |-> <<"c">>, val |-> <<>>]>> >>

\* C19: every data row the decoder keeps comes out with len(header) values:
\* the first len(header) raw fields of the row, in order, when the row is
\* longer than the header, and the raw fields followed by empty strings
\* when it is shorter; a,b,c / 1,2 gives the one record {a: 1, b: 2, c: ""}.
C19_ColumnNormalization ==
    pc \in {"parsed", "terminated"} =>
        /\ Len(rows) = Len(KeptRaw)
        /\ \A k \in 1..Len(rows) :
              /\ Len(rows[k]) = Len(headers_list)
              /\ \A j \in 1..Len(headers_list) :
                    rows[k][j] = IF j <= Len(KeptRaw[k]) THEN KeptRaw[k][j] ELSE <<>>
        /\ text = TextShortRow => result = ShortRowRecords

\* The example: a row of two fields under a header of three.
C19_Witness ==
    /\ pc = "parsed"
    /\ text = TextShortRow
    /\ tok.rows[2] = << <<"1">>, <<"2">> >>
    /\ rows = << << <<"1">>, <<"2">>, <<>> >> >>
    /\ result = ShortRowRecords

\* The raw header row of the parsed text.
RawHeader == Head(tokenize(normalize_newlines(text), used_d))

\* C20: the header names are the raw header cells with surrounding
\* whitespace trimmed, after the U+FEFF that begins the first cell is
\* removed; a U+FEFF that begins another header cell stays in that name.
C20_HeaderExtraction ==
    pc # "start" =>
        /\ Len(headers_list) = Len(RawHeader)
        /\ \A j \in 1..Len(headers_list) :
              headers_list[j] =
                  strip(IF j = 1 THEN lstrip_bom(RawHeader[j]) ELSE RawHeader[j])

\* C21: the header the decoder uses is the first non-blank line of the text,
\* the line delimiter detection inspects: its cells, cleaned, are the header
\* names, and a blank line that precedes it never becomes the header.
C21_HeaderIsFirstNonBlankLine ==
    pc # "start" =>
        headers_list = clean_headers(Head(tokenize(DetectionLine, used_d)))

(***************************************************************************)
(* Newline normalization.                                                  *)
(***************************************************************************)

\* t read from left to right with every CR LF pair and every other CR
\* written as one LF.
RECURSIVE LfOnly(_)
LfOnly(t) ==
    IF t = <<>> THEN <<>>
    ELSE IF t[1] = CR
         THEN <<LF>> \o LfOnly(IF Len(t) >= 2 /\ t[2] = LF
                                THEN SubSeq(t, 3, Len(t)) ELSE Tail(t))
         ELSE <<t[1]>> \o LfOnly(Tail(t))

\* No header name and no value of the records rs contains a CR.
NoCarriageReturn(rs, hs) ==
    /\ \A h \in 1..Len(hs) : CR \notin CharsOf(hs[h])
    /\ \A r \in 1..Len(rs) : \A k \in 1..Len(rs[r]) :
        /\ CR \notin CharsOf(rs[r][k].key)
        /\ CR \notin CharsOf(rs[r][k].val)

\* C22: parse_csv gives the same records for a text and for the text whose
\* CR LF pairs and lone CRs are all replaced by LF, inside quoted fields as
\* well as outside, and no header name or value it returns contains a CR.
C22_NewlineNormalization ==
    pc # "start" =>
        /\ result = parse_csv(LfOnly(text), delimiter)
        /\ NoCarriageReturn(result, headers_list)

\* A text with a CR LF pair was decoded: the pair is one line break.
C22_Witness ==
    /\ pc = "parsed"
    /\ text = <<"a", CR, LF, "a">>
    /\ result = << <<[key |-> <<"a">>, val |-> <<"a">>]>> >>

-----------------------------------------------------------------------------
(* merge_lists never leaves a record out (SpecMerge). *)

\* The items of a list that have an id.
WithId(items) == SelectSeq(items, LAMBDA item : ~LacksId(item))

\* C23, as stated: a record without id is left out of the index silently;
\* merge_lists raises nothing and returns the merge of the records that have
\* an id.
C23_SilentDrop ==
    (pc = "merged" /\ (SomeLacksId(base_list) \/ SomeLacksId(update_list))) =>
        /\ merged.error = ""
        /\ IdSeq(merged.value) =
               FirstOccurrences(IdSeq(WithId(base_list)) \o IdSeq(WithId(update_list)))

\* C23, amended: merge_lists leaves no record out. It returns a list only
\* when every record of base and of updates has an id, and the list then
\* holds a record for the id of every input record; otherwise the call ends
\* in KeyError.
C23_NoSilentDrop ==
    pc = "merged" =>
        IF merged.error = ""
        THEN /\ ~SomeLacksId(base_list) /\ ~SomeLacksId(update_list)
             /\ \A i \in 1..Len(base_list) : IdOf(base_list[i]) \in IdsOf(merged.value)
             /\ \A i \in 1..Len(update_list) : IdOf(update_list[i]) \in IdsOf(merged.value)
        ELSE /\ merged.error = "KeyError"
             /\ SomeLacksId(base_list) \/ SomeLacksId(update_list)

\* A base record without id, followed by updates that all have one: nothing
\* is returned, although the other records could have been merged.
C23_Witness ==
    /\ pc = "merged"
    /\ Len(base_list) = 2 /\ ~LacksId(base_list[1]) /\ LacksId(base_list[2])
    /\ update_list # <<>> /\ ~SomeLacksId(update_list)
    /\ merged = Raised("KeyError")

-----------------------------------------------------------------------------
(* The classification of sort keys (SpecSort). *)

\* s matches ^[0-9]+(\.[0-9]+)?$ : digits, or digits, one dot and digits.
MatchesNumber(s) ==
    \/ isdigit(s)
    \/ \E k \in 2..(Len(s) - 1) :
          /\ s[k] = "."
          /\ isdigit(SubSeq(s, 1, k - 1))
          /\ isdigit(SubSeq(s, k + 1, Len(s)))

\* C24: in sort_list a present string value gets a numeric sort key exactly
\* when it matches ^[0-9]+(\.[0-9]+)?$, an integer without a dot and a
\* fraction with one; any other string is never keyed as a number, and an
\* absent field gets the empty-string key.
C24_SortKeyClassification ==
    pc = "sorted" =>
        \A i \in 1..Len(list_data) :
            LET item == list_data[i]
                k == sort_key(item, N)
            IN IF ~dict_has(item, N) THEN k = StrKey(<<>>)
               ELSE dict_get(item, N, None) # None =>
                      /\ k.t = "num" <=> MatchesNumber(dict_get(item, N, None))
                      /\ (k.t = "num" /\ ~contains(dict_get(item, N, None), ".")) => k.d = 1

-----------------------------------------------------------------------------
(* Algebraic properties of merge_lists (SpecMerge). *)

\* C27: when every record has an id, merging the updates into the result of
\* a merge once more changes nothing, merge_lists(merge_lists(base, updates),
\* updates) = merge_lists(base, updates), and merging no updates into a base
\* of pairwise distinct ids returns the base.
C27_MergeIdempotent ==
    /\ (pc = "remerged" /\ AllHaveId) => remerged = merged
    /\ (pc \in {"merged", "remerged"} /\ AllHaveId /\ update_list = <<>>
            /\ DistinctNames(IdSeq(base_list))) =>
          merged = Returned(base_list)

\* The example merged twice: record 2 is overwritten by an equal record and
\* record 3, appended by the first merge, keeps its place.
C27_Witness ==
    /\ pc = "remerged"
    /\ base_list = ExampleBase /\ update_list = ExampleUpdates
    /\ merged = Returned(ExampleMerged)
    /\ remerged = Returned(ExampleMerged)

\* A base of two distinct ids merged with no updates.
C27_IdentityWitness ==
    /\ pc = "merged" /\ update_list = <<>>
    /\ Len(base_list) = 2 /\ AllHaveId /\ DistinctNames(IdSeq(base_list))
    /\ merged = Returned(base_list)

-----------------------------------------------------------------------------
(* The batch requests: routers/batch.py and services/batch.py over the     *)
(* object storage, Polis and the draft table.                              *)

CATEGORY == <<"c", "a", "t", "e", "g", "o", "r", "y">>
TITLE == <<"t", "i", "t", "l", "e">>
DESCRIPTION == <<"d", "e", "s", "c", "r", "i", "p", "t", "i", "o", "n">>
CONVERSATION_ID == <<"c", "o", "n", "v", "e", "r", "s", "a", "t", "i", "o", "n", "_", "i", "d">>
REPORT_ID == <<"r", "e", "p", "o", "r", "t", "_", "i", "d">>
VOTES == <<"v", "o", "t", "e", "s">>
COMMENTS == <<"c", "o", "m", "m", "e", "n", "t", "s">>
CREATE_DATE == <<"c", "r", "e", "a", "t", "e", "_", "d", "a", "t", "e">>
THEME_HEADERS ==
    <<ID, CATEGORY, TITLE, DESCRIPTION, CONVERSATION_ID, REPORT_ID, VOTES,
      COMMENTS, CREATE_DATE>>

\* The storage keys: "csv/themes.csv" and f"csv/report/report_{id}.csv".
THEMES_KEY == <<"c", "s", "v", "/", "t", "h", "e", "m", "e", "s", ".", "c", "s", "v">>
report_key(conversation_id) ==
    <<"c", "s", "v", "/", "r", "e", "p", "o", "r", "t", "/", "r", "e", "p", "o", "r", "t", "_">> \o conversation_id \o <<".", "c", "s", "v">>

\* str(n) for n >= 0
RECURSIVE str_of_int(_)
str_of_int(n) ==
    IF n < 10 THEN <<Digits[n + 1]>>
    ELSE str_of_int(n \div 10) \o <<Digits[(n % 10) + 1]>>

\* s.split("#####")
SEPARATOR == <<"#", "#", "#", "#", "#">>
RECURSIVE split_comments(_)
split_comments(s) ==
    IF \E k \in 1..(Len(s) - Len(SEPARATOR) + 1) :
           SubSeq(s, k, k + Len(SEPARATOR) - 1) = SEPARATOR
    THEN LET k == CHOOSE i \in 1..(Len(s) - Len(SEPARATOR) + 1) :
                      /\ SubSeq(s, i, i + Len(SEPARATOR) - 1) = SEPARATOR
                      /\ \A j \in 1..(i - 1) :
                            SubSeq(s, j, j + Len(SEPARATOR) - 1) # SEPARATOR
         IN <<SubSeq(s, 1, k - 1)>>
                \o split_comments(SubSeq(s, k + Len(SEPARATOR), Len(s)))
    ELSE <<s>>

\* A Python value of a given type; values of different types are unequal.
PyStr(s) == [type |-> "str", s |-> s, n |-> 0]
PyInt(n) == [type |-> "int", s |-> <<>>, n |-> n]
\* a != b
py_ne(a, b) == a # b

(* Polis: a conversation has an id, a report id and the vote total of each  *)
(* of its comments; draft records the draft it was created for (0: none).  *)

COMMENT_ID == <<"c", "o", "m", "m", "e", "n", "t", "-", "i", "d">>
TOTAL_VOTES == <<"t", "o", "t", "a", "l", "-", "v", "o", "t", "e", "s">>

\* The document of reportExport/{report_id}/comment-groups.csv: one row for
\* each comment of the conversation, with its vote total.
report_export(conversation) ==
    [k \in 1..Len(conversation.votes) |->
        <<[key |-> COMMENT_ID, val |-> str_of_int(k - 1)],
          [key |-> TOTAL_VOTES, val |-> str_of_int(conversation.votes[k])]>>]

\* fetch_url of the report export of report_id
fetch_report(pol, report_id) ==
    report_export(pol[CHOOSE k \in 1..Len(pol) : pol[k].report_id = report_id])

\* The ids Polis gives to its n-th conversation and to its report.
conversation_id_of(n) == <<"c">> \o str_of_int(n)
report_id_of(n) == <<"r">> \o str_of_int(n)

\* Time.to_mysql_datetime_str(Time.now()), for the instant of the model
NOW == <<"2", "0", "2", "5", "-", "0", "9", "-", "1", "2", " ", "0", "0", ":", "0", "0", ":", "0", "0">>

(* A CSV object is held as the records parse_csv returns for its text.    *)
(* For the values of the batch requests (no quote, delimiter, newline or   *)
(* outer blank, no blank record) the decoder returns, under each header,   *)
(* the cell the encoder wrote.                                             *)

\* parse_csv(to_csv(recs, hs)): every record with the headers as
\* keys and the str of its values, "" for a missing key or None
csv_document(recs, hs) ==
    [i \in 1..Len(recs) |->
        [k \in 1..Len(hs) |-> [key |-> hs[k], val |-> record_row(recs[i], hs)[k]]]]

\* parse_csv(s3.get_bytes(key).decode("utf-8"))
get_bytes(store, key) == store[key]
\* s3.upload_bytes(key, text.encode("utf-8")): the object under key is
\* created or replaced
upload_bytes(store, key, body) == (key :> body) @@ store

\* get_theme_csv: the records of csv/themes.csv sorted by id
get_theme_csv(store) == sort_list(get_bytes(store, THEMES_KEY), ID, FALSE).value

\* get_report_csv: the report and its records
get_report_csv(pol, report_id) ==
    LET report_csv_str == fetch_report(pol, report_id)
    IN [text |-> report_csv_str, comments |-> report_csv_str]

\* A last id taken from the first record of the list.
themes_first_id(themes_list) ==
    str_of_int(to_int(dict_get(themes_list[1], ID, None)) + 1)

\* get_themes_last_id: str(int(themes_list[len(themes_list) - 1]["id"]) + 1)
get_themes_last_id(themes_list) ==
    str_of_int(to_int(dict_get(themes_list[Len(themes_list)], ID, None)) + 1)

\* create_theme_on_polis: the conversation Polis creates for the n-th
\* request of a theme, with one comment without votes for each seed comment.
new_conversation(pol, comments, draft) ==
    [conversation_id |-> conversation_id_of(Len(pol) + 1),
     report_id |-> report_id_of(Len(pol) + 1),
     votes |-> [k \in 1..Len(comments) |-> 0],
     draft |-> draft]

\* create_theme_on_polis: the dict it returns ("comments" holds
\* len(comments), which to_csv writes as str(len(comments))).
create_theme_on_polis(theme_name, theme_description, comments, category, conversation) ==
    <<[key |-> ID, val |-> None],
      [key |-> CATEGORY, val |-> category],
      [key |-> TITLE, val |-> theme_name],
      [key |-> DESCRIPTION, val |-> theme_description],
      [key |-> CONVERSATION_ID, val |-> conversation.conversation_id],
      [key |-> REPORT_ID, val |-> conversation.report_id],
      [key |-> VOTES, val |-> <<"0">>],
      [key |-> COMMENTS, val |-> str_of_int(Len(comments))],
      [key |-> CREATE_DATE, val |-> <<"2", "0", "2", "5", "-", "0", "9", "-", "1", "2">>]>>

\* create_theme: the theme created on pol (the state of Polis after the
\* creation), its report text, its id and its creation date.
create_theme(theme_list, theme_name, theme_description, comments, category, pol) ==
    LET conversation == pol[Len(pol)]
        info == create_theme_on_polis(theme_name, theme_description, comments,
                                      category, conversation)
        report == get_report_csv(pol, dict_get(info, REPORT_ID, None))
    IN [report_csv_str |-> report.text,
        theme_info |-> dict_set(dict_set(info, ID, get_themes_last_id(theme_list)),
                                CREATE_DATE, NOW)]

-----------------------------------------------------------------------------
(* POST /batch/update *)

\* total_votes += int(comment["total-votes"]) over the comments of a report
RECURSIVE sum_votes(_)
sum_votes(comments) ==
    IF comments = <<>> THEN 0
    ELSE to_int(dict_get(Head(comments), TOTAL_VOTES, None)) + sum_votes(Tail(comments))

\* The report fetched for a theme and the totals summed from it.
theme_report(theme, pol) == get_report_csv(pol, dict_get(theme, REPORT_ID, None))
total_votes(theme, pol) == sum_votes(theme_report(theme, pol).comments)
total_comments(theme, pol) == Len(theme_report(theme, pol).comments)

\* if theme["votes"] != total_votes: a str is compared with an int
is_changed(theme, pol) ==
    py_ne(PyStr(dict_get(theme, VOTES, None)), PyInt(total_votes(theme, pol)))

\* update_row: the copy of the theme with the new totals
update_row(theme, pol) ==
    dict_set(dict_set(theme, VOTES, str_of_int(total_votes(theme, pol))),
             COMMENTS, str_of_int(total_comments(theme, pol)))

\* update_themes after the loop over the themes
select_update_themes(themes_list, pol) ==
    LET changed == SelectSeq(themes_list, LAMBDA theme : is_changed(theme, pol))
    IN [k \in 1..Len(changed) |-> update_row(changed[k], pol)]

\* update_comment_csv after the loop: conversation_id -> report, a key at
\* the place of its first assignment with the value of its last
select_update_comment_csv(themes_list, pol) ==
    LET changed == SelectSeq(themes_list, LAMBDA theme : is_changed(theme, pol))
        ids == [k \in 1..Len(changed) |-> dict_get(changed[k], CONVERSATION_ID, None)]
        firsts == SelectSeq([k \in 1..Len(ids) |-> k],
                            LAMBDA k : \A j \in 1..(k - 1) : ids[j] # ids[k])
    IN [n \in 1..Len(firsts) |->
          [key |-> ids[firsts[n]],
           val |-> theme_report(
                       changed[CHOOSE k \in 1..Len(ids) :
                                  /\ ids[k] = ids[firsts[n]]
                                  /\ \A j \in (k + 1)..Len(ids) : ids[j] # ids[k]],
                       pol).text]]

\* The upload_bytes calls of update: the changed reports, then themes.csv.
update_uploads(update_comment_csv, fixed_theme_csv_text) ==
    [k \in 1..Len(update_comment_csv) |->
        [key |-> report_key(update_comment_csv[k].key),
         body |-> update_comment_csv[k].val]]
    \o <<[key |-> THEMES_KEY, body |-> fixed_theme_csv_text]>>

\* The storage after a list of upload_bytes calls: the last call of a key
\* decides the object under it.
upload_all(store, calls) ==
    LET keys == {calls[k].key : k \in 1..Len(calls)} IN
    [key \in (DOMAIN store) \cup keys |->
        IF key \in keys
        THEN calls[CHOOSE k \in 1..Len(calls) :
                      /\ calls[k].key = key
                      /\ \A j \in (k + 1)..Len(calls) : calls[j].key # key].body
        ELSE store[key]]

\* The whole request.
Update ==
    /\ requests < MaxRequests
    /\ \E themes_list \in {get_theme_csv(s3)} :
       \E selected \in {select_update_themes(themes_list, polis)} :
       \E update_comment_csv \in {select_update_comment_csv(themes_list, polis)} :
       \E result_themes \in {merge_lists(themes_list, selected).value} :
       \E calls \in {update_uploads(update_comment_csv,
                                    csv_document(result_themes, THEME_HEADERS))} :
          /\ update_themes' = selected
          /\ uploaded' = calls
          /\ s3' = upload_all(s3, calls)
    /\ requests' = requests + 1
    /\ pc' = "updated"
    /\ UNCHANGED <<polis, t_draft, req, decVars, encVars, mergeVars, sortVars>>

\* A participant votes on a comment of a conversation.
Vote ==
    /\ \E c \in 1..Len(polis) : \E k \in 1..Len(polis[c].votes) :
          /\ polis[c].votes[k] < MaxVotes
          /\ polis' = [polis EXCEPT ![c].votes[k] = @ + 1]
    /\ UNCHANGED <<pc, s3, t_draft, update_themes, uploaded, requests, req,
                   decVars, encVars, mergeVars, sortVars>>

\* A theme as create wrote it: no votes yet.
Theme(id, conversation, comments) ==
    <<[key |-> ID, val |-> id],
      [key |-> CATEGORY, val |-> <<"c">>],
      [key |-> TITLE, val |-> <<"t">>],
      [key |-> DESCRIPTION, val |-> <<"d">>],
      [key |-> CONVERSATION_ID, val |-> conversation.conversation_id],
      [key |-> REPORT_ID, val |-> conversation.report_id],
      [key |-> VOTES, val |-> <<"0">>],
      [key |-> COMMENTS, val |-> str_of_int(comments)],
      [key |-> CREATE_DATE, val |-> NOW]>>

\* Polis with a conversation of one comment and one of two, without votes.
TwoConversations ==
    <<[conversation_id |-> conversation_id_of(1), report_id |-> report_id_of(1),
       votes |-> <<0>>, draft |-> 0],
      [conversation_id |-> conversation_id_of(2), report_id |-> report_id_of(2),
       votes |-> <<0, 0>>, draft |-> 0]>>

\* The storage after the themes of pol were created under the ids ids.
StorageOf(pol, ids) ==
    upload_all(<<>>,
        <<[key |-> THEMES_KEY,
           body |-> csv_document(
                        [k \in 1..Len(pol) |-> Theme(ids[k], pol[k], Len(pol[k].votes))],
                        THEME_HEADERS)]>>
        \o [k \in 1..Len(pol) |->
               [key |-> report_key(pol[k].conversation_id), body |-> report_export(pol[k])]])

InitUpdate ==
    /\ pc = "start"
    /\ polis = TwoConversations
    /\ s3 = StorageOf(TwoConversations, <<<<"1">>, <<"2">>>>)
    /\ t_draft = <<>> /\ update_themes = <<>> /\ uploaded = <<>>
    /\ requests = 0 /\ req = <<>>
    /\ decIdle /\ encIdle /\ mergeIdle /\ sortIdle

NextUpdate == Update \/ Vote

SpecUpdate == InitUpdate /\ [][NextUpdate]_vars

-----------------------------------------------------------------------------
(* Change detection of /batch/update (SpecUpdate). *)

\* The sum of a sequence of numbers.
RECURSIVE Sum(_)
Sum(ns) == IF ns = <<>> THEN 0 ELSE Head(ns) + Sum(Tail(ns))

\* The votes Polis counts for the conversation of a theme.
VotesOn(theme) ==
    Sum(polis[CHOOSE c \in 1..Len(polis) :
                 polis[c].conversation_id = dict_get(theme, CONVERSATION_ID, None)].votes)

\* The keys of a list of upload_bytes calls.
KeysOfCalls(calls) == {calls[k].key : k \in 1..Len(calls)}

\* C25: /batch/update puts a theme into the update list, and uploads its
\* report again, only when the vote total summed from the report differs
\* from the votes value themes.csv holds for it; a theme whose stored votes
\* equal the new total is neither rewritten nor uploaded again.
C25_ChangeDetection ==
    [][(pc' = "updated" /\ requests' = requests + 1) =>
          LET themes == get_theme_csv(s3) IN
          \A k \in 1..Len(themes) :
              to_int(dict_get(themes[k], VOTES, None)) = VotesOn(themes[k]) =>
                  /\ IdOf(themes[k]) \notin IdsOf(update_themes')
                  /\ report_key(dict_get(themes[k], CONVERSATION_ID, None))
                         \notin KeysOfCalls(uploaded')]_vars

\* The theme names and the comment texts of the requests.
ThemeNames == {<<"t">>, <<"u">>}
ThemeComments == {<<"x">>, <<"x", "#", "#", "#", "#", "#", "y">>}

-----------------------------------------------------------------------------
(* POST /batch/create, POST /batch/create_all, POST /admin/approve and     *)
(* POST /admin/edit                                                        *)

\* PostStatus
GENERATED == 1
APPROVED == 2
POSTED == 3

\* The upload_bytes calls of create: themes.csv, then the report of the
\* created theme under the key of its conversation.
create_uploads(theme_list, theme_info, report_csv_str) ==
    <<[key |-> THEMES_KEY, body |-> csv_document(theme_list, THEME_HEADERS)],
      [key |-> report_key(dict_get(theme_info, CONVERSATION_ID, None)),
       body |-> report_csv_str]>>

\* The whole request /batch/create.
Create ==
    /\ requests < MaxRequests
    /\ \E theme_name \in ThemeNames : \E theme_comments \in ThemeComments :
       \E comments \in {split_comments(theme_comments)} :
       \E theme_list \in {get_theme_csv(s3)} :
       \E pol \in {Append(polis, new_conversation(polis, comments, 0))} :
       \E created \in {create_theme(theme_list, theme_name, <<"d">>, comments,
                                    <<"c">>, pol)} :
       \E calls \in {create_uploads(Append(theme_list, created.theme_info),
                                    created.theme_info, created.report_csv_str)} :
          /\ polis' = pol
          /\ uploaded' = calls
          /\ s3' = upload_all(s3, calls)
    /\ requests' = requests + 1
    /\ pc' = "created"
    /\ UNCHANGED <<t_draft, update_themes, req, decVars, encVars, mergeVars, sortVars>>

\* select_by_post_status: the rows of the given post_status, in table order
select_by_post_status(table, post_status) ==
    SelectSeq(table, LAMBDA row : row.post_status = post_status)

\* update_list_post_status: the rows of the list get the post_status
update_list_post_status(table, t_draft_list, post_status) ==
    [k \in 1..Len(table) |->
        IF \E j \in 1..Len(t_draft_list) : t_draft_list[j].id = table[k].id
        THEN [table[k] EXCEPT !.post_status = post_status]
        ELSE table[k]]

\* One turn of the creation loop of create_all: loc holds theme_list,
\* report_csv_list, theme_info and the state of Polis.
create_all_step(loc, row) ==
    LET comments == split_comments(row.theme_comments)
        pol == Append(loc.pol, new_conversation(loc.pol, comments, row.id))
        created == create_theme(loc.theme_list, row.theme_name, <<"d">>, comments,
                                <<"c">>, pol)
    IN [theme_list |-> Append(loc.theme_list, created.theme_info),
        report_csv_list |-> Append(loc.report_csv_list, created.report_csv_str),
        theme_info |-> created.theme_info,
        pol |-> pol]

RECURSIVE create_all_loop(_, _)
create_all_loop(loc, t_draft_list) ==
    IF t_draft_list = <<>> THEN loc
    ELSE CHOOSE out \in {create_all_loop(next, Tail(t_draft_list)) :
                            next \in {create_all_step(loc, Head(t_draft_list))}} : TRUE

\* The upload_bytes calls of create_all: themes.csv, then every report of
\* report_csv_list under the key of theme_info, the theme created last.
create_all_uploads(loc) ==
    <<[key |-> THEMES_KEY, body |-> csv_document(loc.theme_list, THEME_HEADERS)]>>
    \o [k \in 1..Len(loc.report_csv_list) |->
           [key |-> report_key(dict_get(loc.theme_info, CONVERSATION_ID, None)),
            body |-> loc.report_csv_list[k]]]

\* The whole request /batch/create_all.
CreateAll ==
    /\ requests < MaxRequests
    /\ \E t_draft_list \in {select_by_post_status(t_draft, APPROVED)} :
       \E theme_list \in {get_theme_csv(s3)} :
       \E loc \in {create_all_loop([theme_list |-> theme_list, report_csv_list |-> <<>>,
                                    theme_info |-> <<>>, pol |-> polis],
                                   t_draft_list)} :
       \E calls \in {create_all_uploads(loc)} :
          /\ polis' = loc.pol
          /\ uploaded' = calls
          /\ s3' = upload_all(s3, calls)
          /\ t_draft' = update_list_post_status(t_draft, t_draft_list, POSTED)
    /\ requests' = requests + 1
    /\ pc' = "created_all"
    /\ UNCHANGED <<update_themes, req, decVars, encVars, mergeVars, sortVars>>

\* The whole request /admin/approve for a draft that exists.
Approve ==
    /\ requests < MaxRequests
    /\ \E k \in 1..Len(t_draft) :
          t_draft' = [t_draft EXCEPT ![k].post_status = APPROVED]
    /\ requests' = requests + 1
    /\ pc' = "approved"
    /\ UNCHANGED <<s3, polis, update_themes, uploaded, req,
                   decVars, encVars, mergeVars, sortVars>>

\* The whole request /admin/edit for a draft that exists: update_content.
Edit ==
    /\ requests < MaxRequests
    /\ \E k \in 1..Len(t_draft) :
       \E theme_name \in ThemeNames : \E theme_comments \in ThemeComments :
          t_draft' = [t_draft EXCEPT ![k].theme_name = theme_name,
                                     ![k].theme_comments = theme_comments]
    /\ requests' = requests + 1
    /\ pc' = "edited"
    /\ UNCHANGED <<s3, polis, update_themes, uploaded, req,
                   decVars, encVars, mergeVars, sortVars>>

\* Polis with one conversation of one comment for each of n themes.
Conversations(n) ==
    [k \in 1..n |->
        [conversation_id |-> conversation_id_of(k), report_id |-> report_id_of(k),
         votes |-> <<0>>, draft |-> 0]]

\* The ids of the themes themes.csv starts with, in file order.
InitialIds ==
    {<<<<"1">>>>, <<<<"1">>, <<"2">>>>, <<<<"1", "0">>, <<"9">>>>}

\* Two drafts, generated or approved: one with one comment, one with two.
InitialDrafts ==
    {<<[id |-> 1, post_status |-> p, theme_name |-> <<"t">>,
        theme_comments |-> <<"x">>],
       [id |-> 2, post_status |-> q, theme_name |-> <<"u">>,
        theme_comments |-> <<"x", "#", "#", "#", "#", "#", "y">>]>> :
        p \in {GENERATED, APPROVED}, q \in {GENERATED, APPROVED}}

InitCreate ==
    /\ pc = "start"
    /\ \E ids \in InitialIds :
          /\ polis = Conversations(Len(ids))
          /\ s3 = StorageOf(Conversations(Len(ids)), ids)
    /\ t_draft \in InitialDrafts
    /\ update_themes = <<>> /\ uploaded = <<>>
    /\ requests = 0 /\ req = <<>>
    /\ decIdle /\ encIdle /\ mergeIdle /\ sortIdle

NextCreate == Create \/ CreateAll \/ Approve \/ Edit

SpecCreate == InitCreate /\ [][NextCreate]_vars

-----------------------------------------------------------------------------
(* Properties of theme creation (SpecCreate). *)

\* C26: after /batch/create_all every theme it created has its own report
\* object: the report fetched for a theme is stored under the key built from
\* that theme's conversation_id, and under no other theme's key.
C26_OwnReportKey ==
    pc = "created_all" =>
        \A c \in 1..Len(polis) :
            /\ report_key(polis[c].conversation_id) \in DOMAIN s3
            /\ s3[report_key(polis[c].conversation_id)] = report_export(polis[c])

\* The ids of the themes in csv/themes.csv, in file order.
ThemeIds(store) == IdSeq(store[THEMES_KEY])

\* The greatest of a non-empty set of numbers.
Max(ns) == CHOOSE n \in ns : \A m \in ns : m <= n

\* C28: a request leaves the themes it found in themes.csv and gives every
\* theme it adds the id that follows the greatest id of the themes before
\* it, so the ids of themes.csv stay pairwise distinct.
C28_IdAllocation ==
    [][LET old == ThemeIds(s3)
           new == ThemeIds(s3')
       IN /\ Len(new) >= Len(old)
          /\ {new[k] : k \in 1..Len(old)} = {old[k] : k \in 1..Len(old)}
          /\ \A k \in (Len(old) + 1)..Len(new) :
                to_int(new[k]) = Max({to_int(new[j]) : j \in 1..(k - 1)}) + 1
          /\ \A i, j \in 1..Len(new) : to_int(new[i]) = to_int(new[j]) => i = j]_vars

\* create_all added two themes to a file that held 10 before 9: they got
\* the ids 11 and 12.
C28_Witness ==
    /\ pc = "created_all"
    /\ ThemeIds(s3) = <<<<"9">>, <<"1", "0">>, <<"1", "1">>, <<"1", "2">>>>

\* C30: a draft that create_all has posted is never taken by create_all
\* again, whatever approve, edit and create_all requests follow: Polis holds
\* at most one conversation for each draft.
C30_PostedOnce ==
    \A k \in 1..Len(t_draft) :
        Cardinality({c \in 1..Len(polis) : polis[c].draft = t_draft[k].id}) <= 1

-----------------------------------------------------------------------------
(* Two batch requests running concurrently: a handler gives way to the     *)
(* other request at its awaits, between reading csv/themes.csv, calling    *)
(* Polis and each upload_bytes.                                            *)

\* The locals of a request that has not read anything yet.
Request(kind) ==
    [kind |-> kind, at |-> "start", theme_list |-> <<>>, t_draft_list |-> <<>>,
     calls |-> <<>>, appended |-> <<>>]

\* await get_theme_csv() (create_all: after await select_by_post_status)
Read ==
    \E r \in DOMAIN req :
        /\ req[r].at = "start"
        /\ req' = [req EXCEPT
              ![r].at = "read",
              ![r].theme_list = get_theme_csv(s3),
              ![r].t_draft_list =
                  IF req[r].kind = "create_all"
                  THEN select_by_post_status(t_draft, APPROVED) ELSE <<>>]
        /\ UNCHANGED <<pc, s3, polis, t_draft, update_themes, uploaded, requests,
                       decVars, encVars, mergeVars, sortVars>>

\* create: the theme is created on Polis and appended to the list read.
WorkCreate ==
    \E r \in DOMAIN req :
        /\ req[r].at = "read" /\ req[r].kind = "create"
        /\ \E comments \in {split_comments(<<"x">>)} :
           \E pol \in {Append(polis, new_conversation(polis, comments, 0))} :
           \E created \in {create_theme(req[r].theme_list, <<"t">>, <<"d">>, comments,
                                        <<"c">>, pol)} :
              /\ polis' = pol
              /\ req' = [req EXCEPT
                    ![r].at = "upload",
                    ![r].calls = create_uploads(
                                     Append(req[r].theme_list, created.theme_info),
                                     created.theme_info, created.report_csv_str),
                    ![r].appended =
                        <<dict_get(created.theme_info, CONVERSATION_ID, None)>>]
        /\ UNCHANGED <<pc, s3, t_draft, update_themes, uploaded, requests,
                       decVars, encVars, mergeVars, sortVars>>

\* create_all: a theme is created for every draft selected and appended to
\* the list read.
WorkCreateAll ==
    \E r \in DOMAIN req :
        /\ req[r].at = "read" /\ req[r].kind = "create_all"
        /\ \E loc \in {create_all_loop([theme_list |-> req[r].theme_list,
                                        report_csv_list |-> <<>>,
                                        theme_info |-> <<>>, pol |-> polis],
                                       req[r].t_draft_list)} :
              /\ polis' = loc.pol
              /\ req' = [req EXCEPT
                    ![r].at = "upload",
                    ![r].calls = create_all_uploads(loc),
                    ![r].appended =
                        [k \in 1..(Len(loc.pol) - Len(polis)) |->
                            loc.pol[Len(polis) + k].conversation_id]]
        /\ UNCHANGED <<pc, s3, t_draft, update_themes, uploaded, requests,
                       decVars, encVars, mergeVars, sortVars>>

\* update: the reports are fetched and the themes read are merged with the
\* rewritten ones.
WorkUpdate ==
    \E r \in DOMAIN req :
        /\ req[r].at = "read" /\ req[r].kind = "update"
        /\ \E selected \in {select_update_themes(req[r].theme_list, polis)} :
           \E update_comment_csv \in
                  {select_update_comment_csv(req[r].theme_list, polis)} :
           \E result_themes \in {merge_lists(req[r].theme_list, selected).value} :
              /\ update_themes' = selected
              /\ req' = [req EXCEPT
                    ![r].at = "upload",
                    ![r].calls = update_uploads(
                                     update_comment_csv,
                                     csv_document(result_themes, THEME_HEADERS))]
        /\ UNCHANGED <<pc, s3, polis, t_draft, uploaded, requests,
                       decVars, encVars, mergeVars, sortVars>>

\* await s3.upload_bytes(...): the next upload of the request
Upload ==
    \E r \in DOMAIN req :
        /\ req[r].at = "upload" /\ req[r].calls # <<>>
        /\ s3' = upload_bytes(s3, Head(req[r].calls).key, Head(req[r].calls).body)
        /\ uploaded' = Append(uploaded, Head(req[r].calls))
        /\ req' = [req EXCEPT ![r].calls = Tail(@)]
        /\ UNCHANGED <<pc, polis, t_draft, update_themes, requests,
                       decVars, encVars, mergeVars, sortVars>>

\* The request returns is_success=True (create_all: after the drafts it
\* selected were marked POSTED).
Respond ==
    \E r \in DOMAIN req :
        /\ req[r].at = "upload" /\ req[r].calls = <<>>
        /\ t_draft' = IF req[r].kind = "create_all"
                      THEN update_list_post_status(t_draft, req[r].t_draft_list, POSTED)
                      ELSE t_draft
        /\ req' = [req EXCEPT ![r].at = "done"]
        /\ requests' = requests + 1
        /\ UNCHANGED <<pc, s3, polis, update_themes, uploaded,
                       decVars, encVars, mergeVars, sortVars>>

Kinds == {"create", "create_all", "update"}

InitRace ==
    /\ pc = "start"
    /\ polis = Conversations(1)
    /\ s3 = StorageOf(Conversations(1), <<<<"1">>>>)
    /\ t_draft = <<[id |-> 1, post_status |-> APPROVED, theme_name |-> <<"u">>,
                    theme_comments |-> <<"x">>]>>
    /\ update_themes = <<>> /\ uploaded = <<>> /\ requests = 0
    /\ \E first \in Kinds : \E second \in Kinds :
          req = <<Request(first), Request(second)>>
    /\ decIdle /\ encIdle /\ mergeIdle /\ sortIdle

NextRace ==
    Read \/ WorkCreate \/ WorkCreateAll \/ WorkUpdate \/ Upload \/ Respond

SpecRace == InitRace /\ [][NextRace]_vars

\* The conversation ids of the themes in csv/themes.csv.
StoredConversations ==
    {dict_get(s3[THEMES_KEY][k], CONVERSATION_ID, None) : k \in 1..Len(s3[THEMES_KEY])}

\* C29: whatever the interleaving of two concurrent batch requests, once
\* both have returned successfully csv/themes.csv holds every theme either
\* of them appended: no write of one request discards a theme of the other.
C29_NoLostUpdate ==
    (\A r \in DOMAIN req : req[r].at = "done") =>
        \A r \in DOMAIN req : \A k \in 1..Len(req[r].appended) :
            req[r].appended[k] \in StoredConversations

====
